---- MODULE Spec2Model ----
(***************************************************************************)
(* Mouseless: the application grid (AppView / IconGrid) of the launcher    *)
(* overlay.  The module models the grid's cell collection, its             *)
(* reconciliation against the application inventory (AppView._redisplay,   *)
(* AppView._loadApps, AppBackend.getAllApps) and directional focus         *)
(* navigation (IconGrid.navigate_focus, AppView.movement), and the screen  *)
(* that holds it (MouselessScreen): its views, its modal grab, its         *)
(* automatic hiding and its before-redraw focus retries.                   *)
(*                                                                         *)
(* Strings are modelled by what the code does with them: an id or a name   *)
(* is a record [letter, upper]; toLowerCase clears `upper`.                *)
(* A cell (AppIcon) is a record [app, obj]: the application it was built   *)
(* from and the identity of the JavaScript object.                         *)
(***************************************************************************)
EXTENDS Integers, Sequences, FiniteSets, TLC

\* ---------------------------------------------------------------- bounds
\* Number of applications the menu tree can hold (reconciliation).
MaxApps == 2
\* Largest number of favorite ids handed to one reload (reconciliation).
MaxFav == 1
\* The same two bounds for the specification of a single load.
MaxLoadApps == 4
MaxLoadFav == 2
\* The grid is allocated at most this many item widths.
MaxCols == 3
\* Largest populated grid the navigation specification starts from.
MaxCells == 5
\* Most focus retries that wait for the next redraw (a handler that would add
\* one more waits for the redraw).
MaxLaters == 2
\* Size of the populated grid the screen specification starts from.
MaxScreenCells == 2
MaxTimers == 2
MaxSelects == 1
\* The sizes the view stack is allocated: no width and the WidthSpan + 1 widths
\* up to MaxAvailWidth, no height and the HeightSpan + 1 heights up to
\* MaxAvailHeight
MaxAvailWidth == 64
WidthSpan == 16
MaxAvailHeight == 82
HeightSpan == 8
\* The item size of a small-celled theme, and the spacing of a spaced one
SmallItem == 20
MaxStyleSpacing == 2

\* ------------------------------------------------------- program constants
\* iconGrid.js: const ICON_SIZE
ICON_SIZE == 160
\* appGrid.js: var MAX_COLUMNS
MAX_COLUMNS == 5

\* ------------------------------------------------------------------ data
Str(l, u) == [letter |-> l, upper |-> u]

\* String.prototype.toLowerCase
toLowerCase(s) == [s EXCEPT !.upper = FALSE]

\* app.get_id(): the desktop file id. Application 3 is installed under an id
\* that differs from application 1's only by case ("A.desktop" / "a.desktop").
AppId(a) == IF a = 3 THEN Str(1, TRUE) ELSE Str(a, FALSE)

\* app.get_name(): display names are not in menu order, and some are capitalised.
AppName(a) == Str(IF a % 2 = 1 THEN a + 1 ELSE a - 1, a % 3 = 0)

NoCell == [app |-> 0, obj |-> 0]

\* BaseAppIcon.id / getId()
getId(icon) == AppId(icon.app)

Range(s) == {s[i] : i \in 1..Len(s)}

\* Array.prototype.map(icon => icon.id)
Ids(s) == [i \in 1..Len(s) |-> getId(s[i])]

\* Array.prototype.indexOf, 0-based, -1 when absent
RECURSIVE IndexFrom(_, _, _)
IndexFrom(s, x, i) ==
  IF i > Len(s) THEN -1
  ELSE IF s[i] = x THEN i - 1
  ELSE IndexFrom(s, x, i + 1)

indexOf(s, x) == IndexFrom(s, x, 1)

\* Array.prototype.splice(i, 0, x): an index past the end appends
InsertAt(s, i, x) ==
  LET k == IF i > Len(s) THEN Len(s) ELSE i
  IN SubSeq(s, 1, k) \o <<x>> \o SubSeq(s, k + 1, Len(s))

\* Array.prototype.splice(i, 1) for an index that is present
RemoveAt(s, i) == SubSeq(s, 1, i) \o SubSeq(s, i + 2, Len(s))

\* ------------------------------------------------------------- sorting
\* The two comparators handed to Array.prototype.sort, by the place that uses
\* them; comparefn(..) is TRUE when the call returns a value > 0.
\*   "getAllApps": a.get_name().toLowerCase() > b.get_name().toLowerCase()
\*                 (code-unit order, on applications)
\*   "otherIcons": a.name.localeCompare(b.name), letters first, lower case
\*                 before upper case (on icons)
comparefn(site, x, y) ==
  IF site = "getAllApps"
  THEN toLowerCase(AppName(x)).letter > toLowerCase(AppName(y)).letter
  ELSE LET a == AppName(x.app)
           b == AppName(y.app)
       IN \/ a.letter > b.letter
          \/ a.letter = b.letter /\ a.upper /\ ~b.upper

\* Array.prototype.sort(comparefn) as the shell's JavaScript engine runs it: an
\* insertion sort that moves an element in front of an earlier one exactly when
\* comparefn(earlier, later) > 0 (a comparator returning true counts as 1).
RECURSIVE InsertSorted(_, _, _)
InsertSorted(s, x, site) ==
  IF s = <<>> THEN <<x>>
  ELSE IF comparefn(site, s[Len(s)], x)
       THEN InsertSorted(SubSeq(s, 1, Len(s) - 1), x, site) \o <<s[Len(s)]>>
       ELSE s \o <<x>>

RECURSIVE ArraySort(_, _)
ArraySort(s, site) ==
  IF s = <<>> THEN <<>>
  ELSE InsertSorted(ArraySort(SubSeq(s, 1, Len(s) - 1), site), s[Len(s)], site)

\* AppBackend.getAllApps: sorts the cached list in place and returns it
getAllApps(cache) == ArraySort(cache, "getAllApps")

\* ------------------------------------------------------- AppView._loadApps
\* getRunningAppId(app): the lower-cased id (inventory ids are desktop file
\* ids, never "window:" ids, so the app-info branch is not taken)
getRunningAppId(a) == toLowerCase(AppId(a))

\* Array.prototype.find: the first icon whose lower-cased id is `id`, NoCell
\* (undefined) when there is none
RECURSIVE findFrom(_, _, _)
findFrom(icons, id, i) ==
  IF i > Len(icons) THEN NoCell
  ELSE IF toLowerCase(getId(icons[i])) = id THEN icons[i]
  ELSE findFrom(icons, id, i + 1)

InSeq(s, x) == \E i \in 1..Len(s) : s[i] = x

\* The smallest identity >= from that no object in `used` carries
RECURSIVE NextFree(_, _)
NextFree(used, from) == IF from \in used THEN NextFree(used, from + 1) ELSE from

\* new AppIcon(app) for each backend app: every icon is a new object, distinct
\* from every object of that application something still refers to (objects of
\* different applications differ in their app field)
newIcons(backendApps, used) ==
  [i \in 1..Len(backendApps) |->
     [app |-> backendApps[i],
      obj |-> NextFree({c.obj : c \in {u \in used : u.app = backendApps[i]}}, 1)]]

\* The three groups of AppView._loadApps over the freshly built icons.
\* favorites: Object.keys(getFavoriteMap()), raw ids in favorite order;
\* runningAppIds: lower-cased ids of the apps that own a window.
favIcons(icons, favorites) ==
  LET found == [i \in 1..Len(favorites) |-> findFrom(icons, toLowerCase(favorites[i]), 1)]
  IN SelectSeq(found, LAMBDA icon : icon # NoCell)

favoriteAppIds(favorites) == {toLowerCase(favorites[i]) : i \in 1..Len(favorites)}

runningIcons(icons, favorites, runningAppIds) ==
  SelectSeq(icons, LAMBDA icon :
    /\ getRunningAppId(icon.app) \in runningAppIds
    /\ getRunningAppId(icon.app) \notin favoriteAppIds(favorites))

otherIcons(icons, favorites, runningAppIds) ==
  ArraySort(
    SelectSeq(icons, LAMBDA icon :
      /\ toLowerCase(getId(icon)) \notin favoriteAppIds(favorites)
      /\ toLowerCase(getId(icon)) \notin runningAppIds),
    "otherIcons")

\* AppView._loadApps: favorites, then running, then others
loadApps(icons, favorites, runningAppIds) ==
  favIcons(icons, favorites)
    \o runningIcons(icons, favorites, runningAppIds)
    \o otherIcons(icons, favorites, runningAppIds)

\* ------------------------------------------------------ AppView._redisplay
\* newApps.filter(icon => !oldAppIds.includes(icon.id))
addedApps(newApps, oldApps) ==
  SelectSeq(newApps, LAMBDA icon : ~InSeq(Ids(oldApps), getId(icon)))

\* A variant that removes every old icon
removedAll(oldApps, newApps) == oldApps

\* oldApps.filter(icon => !newAppIds.includes(icon.id))
removedApps(oldApps, newApps) ==
  SelectSeq(oldApps, LAMBDA icon : ~InSeq(Ids(newApps), getId(icon)))

\* this._orderedItems.splice(this._orderedItems.indexOf(icon), 1), for each
\* removed icon in turn (splice(-1, 1) would drop the last element)
RECURSIVE spliceRemoved(_, _)
spliceRemoved(ordered, removed) ==
  IF removed = <<>> THEN ordered
  ELSE LET i == indexOf(ordered, Head(removed))
       IN spliceRemoved(
            IF i = -1 THEN SubSeq(ordered, 1, Len(ordered) - 1) ELSE RemoveAt(ordered, i),
            Tail(removed))

\* icon.destroy(): a destroyed actor leaves its parent
destroyed(kids, removed) == SelectSeq(kids, LAMBDA c : ~InSeq(removed, c))

\* this._items.delete(id) for each removed icon; _items is a Map id -> icon
deleteItems(map, removed) ==
  [id \in DOMAIN map \ {getId(removed[i]) : i \in 1..Len(removed)} |-> map[id]]

\* this._orderedItems.splice(newApps.indexOf(icon), 0, icon), for each added icon
RECURSIVE spliceAdded(_, _, _)
spliceAdded(ordered, added, newApps) ==
  IF added = <<>> THEN ordered
  ELSE spliceAdded(InsertAt(ordered, indexOf(newApps, Head(added)), Head(added)),
                   Tail(added), newApps)

\* IconGrid.addItem(icon, index) -> insert_child_at_index: an index past the
\* end appends; an actor that already has a parent is refused
RECURSIVE addItems(_, _, _)
addItems(kids, added, newApps) ==
  IF added = <<>> THEN kids
  ELSE addItems(
         IF InSeq(kids, Head(added)) THEN kids
         ELSE InsertAt(kids, indexOf(newApps, Head(added)), Head(added)),
         Tail(added), newApps)

\* this._items.set(icon.id, icon) for each added icon
RECURSIVE setItems(_, _)
setItems(map, added) ==
  IF added = <<>> THEN map
  ELSE setItems(
         [id \in DOMAIN map \cup {getId(Head(added))} |->
            IF id = getId(Head(added)) THEN Head(added) ELSE map[id]],
         Tail(added))

\* ------------------------------------------------------------ IconGrid layout
\* IconGrid._getHItemSize / _getSpacing / paddings as _init leaves them
getHItemSize == ICON_SIZE
getSpacing == 0
leftPadding == 0
rightPadding == 0
\* gridParams.columnLimit of AppView._init
colLimit == MAX_COLUMNS

\* The while loop of IconGrid._computeLayout
RECURSIVE layoutLoop(_, _, _)
layoutLoop(nColumns, usedWidth, forWidth) ==
  IF nColumns < colLimit /\ usedWidth + getHItemSize <= forWidth
  THEN layoutLoop(nColumns + 1, usedWidth + getHItemSize + getSpacing, forWidth)
  ELSE nColumns

\* IconGrid._computeLayout(forWidth)[0]
computeLayout(forWidth) == layoutLoop(0, leftPadding + rightPadding, forWidth)

\* ------------------------------------------- IconGrid layout, for any style
\* The layout fields of an IconGrid are a record g: the parameters of _init
\* (colLimit, minRows, minColumns, padWithSpacing), the lengths _onStyleChanged
\* reads from the theme (spacing, hItemSize, vItemSize), the stage's scale
\* factor, and what adaptToSize leaves (fixedSpacing, fixedHItemSize,
\* fixedVItemSize, nonIconWidth, nonIconHeight, the four paddings and the id of
\* the queued _updateIconSizes). A field that is undefined in JavaScript is 0
\* here: the code only ever tests these fields for truth.
MIN_ICON_SIZE == 16
\* AppView's gridParams
MIN_COLUMNS == 3
MIN_ROWS == 4
\* params.columnLimit when none is given (null)
null == 0 - 1

Min(a, b) == IF a <= b THEN a ELSE b
Max(a, b) == IF a >= b THEN a ELSE b
\* Math.floor(a / b) and Math.ceil(a / b) for b > 0
floorDiv(a, b) == a \div b
ceilDiv(a, b) == 0 - ((0 - a) \div b)

\* IconGrid._init, the style and the scale factor given
IconGrid(params, style, scaleFactor) ==
  [rowLimit |-> params.rowLimit, colLimit |-> params.columnLimit,
   minRows |-> params.minRows,
   minColumns |-> params.minColumns, padWithSpacing |-> params.padWithSpacing,
   topPadding |-> 0, bottomPadding |-> 0, rightPadding |-> 0, leftPadding |-> 0,
   updateIconSizesLaterId |-> 0,
   spacing |-> style.spacing, hItemSize |-> style.hItemSize,
   vItemSize |-> style.vItemSize,
   fixedSpacing |-> 0, fixedHItemSize |-> 0, fixedVItemSize |-> 0,
   nonIconWidth |-> 0, nonIconHeight |-> 0, scaleFactor |-> scaleFactor]

\* The defaults of Params.parse in IconGrid._init
defaultParams ==
  [rowLimit |-> null, columnLimit |-> null, minRows |-> 1, minColumns |-> 1,
   padWithSpacing |-> FALSE]
\* The gridParams AppView._init passes
gridParams ==
  [rowLimit |-> null, columnLimit |-> MAX_COLUMNS, minRows |-> MIN_ROWS,
   minColumns |-> MIN_COLUMNS, padWithSpacing |-> FALSE]
\* The lengths _init hardcodes until a style is read
defaultStyle == [spacing |-> 0, hItemSize |-> ICON_SIZE, vItemSize |-> ICON_SIZE]

setSpacing(g, spacing) == [g EXCEPT !.fixedSpacing = spacing]
_getSpacing(g) == IF g.fixedSpacing # 0 THEN g.fixedSpacing ELSE g.spacing
_getHItemSize(g) == IF g.fixedHItemSize # 0 THEN g.fixedHItemSize ELSE g.hItemSize
_getVItemSize(g) == IF g.fixedVItemSize # 0 THEN g.fixedVItemSize ELSE g.vItemSize

\* A variant of the loop that adds a column whenever the width is not used up
RECURSIVE layoutLoopOver(_, _, _, _)
layoutLoopOver(g, nColumns, usedWidth, forWidth) ==
  IF (g.colLimit = null \/ nColumns < g.colLimit) /\ usedWidth <= forWidth
  THEN layoutLoopOver(g, nColumns + 1,
                      usedWidth + _getHItemSize(g) + _getSpacing(g), forWidth)
  ELSE [nColumns |-> nColumns,
        usedWidth |-> IF nColumns > 0 THEN usedWidth - _getSpacing(g) ELSE usedWidth]

\* The while loop of IconGrid._computeLayout and what follows it
RECURSIVE _computeLayoutLoop(_, _, _, _)
_computeLayoutLoop(g, nColumns, usedWidth, forWidth) ==
  IF (g.colLimit = null \/ nColumns < g.colLimit)
     /\ usedWidth + _getHItemSize(g) <= forWidth
  THEN _computeLayoutLoop(g, nColumns + 1,
                          usedWidth + _getHItemSize(g) + _getSpacing(g), forWidth)
  ELSE [nColumns |-> nColumns,
        usedWidth |-> IF nColumns > 0 THEN usedWidth - _getSpacing(g) ELSE usedWidth]

_computeLayout(g, forWidth) ==
  _computeLayoutLoop(g, 0, g.leftPadding + g.rightPadding, forWidth)

columnsForWidth(g, rowWidth) == _computeLayout(g, rowWidth).nColumns

rowsForHeight(g, forHeight) ==
  floorDiv(forHeight - (g.topPadding + g.bottomPadding) + _getSpacing(g),
           _getVItemSize(g) + _getSpacing(g))

usedHeightForNRows(g, nRows) ==
  (_getVItemSize(g) + _getSpacing(g)) * nRows - _getSpacing(g)
    + g.topPadding + g.bottomPadding

usedWidthForNColumns(g, columns) ==
  columns * (_getHItemSize(g) + _getSpacing(g)) - _getSpacing(g)
    + g.leftPadding + g.rightPadding

_updateSpacingForSize(g, availWidth, availHeight) ==
  LET maxEmptyVArea == availHeight - g.minRows * _getVItemSize(g)
      maxEmptyHArea == availWidth - g.minColumns * _getHItemSize(g)
      maxVSpacing == IF g.padWithSpacing THEN floorDiv(maxEmptyVArea, g.minRows + 1)
                     ELSE IF g.minRows <= 1 THEN maxEmptyVArea
                     ELSE floorDiv(maxEmptyVArea, g.minRows - 1)
      maxHSpacing == IF g.padWithSpacing THEN floorDiv(maxEmptyHArea, g.minColumns + 1)
                     ELSE IF g.minColumns <= 1 THEN maxEmptyHArea
                     ELSE floorDiv(maxEmptyHArea, g.minColumns - 1)
      maxSpacing == Min(Min(maxHSpacing, maxVSpacing),
                        Min(_getVItemSize(g), _getHItemSize(g)))
      spacing == Max(g.spacing, maxSpacing)
  IN IF g.padWithSpacing
     THEN [setSpacing(g, spacing) EXCEPT !.topPadding = spacing, !.rightPadding = spacing,
                                         !.bottomPadding = spacing, !.leftPadding = spacing]
     ELSE setSpacing(g, spacing)

\* adaptToSize up to its test: the sizes reset, the first spacing pass
adaptStart(g, availWidth, availHeight) ==
  LET g1 == _updateSpacingForSize([g EXCEPT !.fixedHItemSize = g.hItemSize,
                                            !.fixedVItemSize = g.vItemSize],
                                  availWidth, availHeight)
  IN [g1 EXCEPT !.nonIconWidth = Max(0, g.hItemSize - g.scaleFactor * ICON_SIZE),
                !.nonIconHeight = Max(0, g.vItemSize - g.scaleFactor * ICON_SIZE)]

\* The test of adaptToSize: fewer columns or rows fit than the minimum
shrinks(g, availWidth, availHeight) ==
  LET g1 == adaptStart(g, availWidth, availHeight)
  IN \/ columnsForWidth(g1, availWidth) < g.minColumns
     \/ rowsForHeight(g1, availHeight) < g.minRows

\* The shrink pass of adaptToSize
shrink(g1, availWidth, availHeight) ==
  LET neededWidth == usedWidthForNColumns(g1, g1.minColumns) - availWidth
      neededHeight == usedHeightForNRows(g1, g1.minRows) - availHeight
      neededSpacePerItem == IF neededWidth > neededHeight
                            THEN ceilDiv(neededWidth, g1.minColumns)
                            ELSE ceilDiv(neededHeight, g1.minRows)
  IN _updateSpacingForSize(
       [g1 EXCEPT !.fixedHItemSize = Max(g1.hItemSize - neededSpacePerItem,
                                         g1.nonIconWidth + g1.scaleFactor * MIN_ICON_SIZE),
                  !.fixedVItemSize = Max(g1.vItemSize - neededSpacePerItem,
                                         g1.nonIconHeight + g1.scaleFactor * MIN_ICON_SIZE)],
       availWidth, availHeight)

\* A variant of adaptToSize that does not reset the fixed item sizes first
adaptKeepsFixed(g, availWidth, availHeight) ==
  LET g1 == [_updateSpacingForSize(g, availWidth, availHeight)
               EXCEPT !.nonIconWidth = Max(0, g.hItemSize - g.scaleFactor * ICON_SIZE),
                      !.nonIconHeight = Max(0, g.vItemSize - g.scaleFactor * ICON_SIZE)]
      g2 == IF \/ columnsForWidth(g1, availWidth) < g.minColumns
               \/ rowsForHeight(g1, availHeight) < g.minRows
            THEN shrink(g1, availWidth, availHeight) ELSE g1
  IN [g2 EXCEPT !.updateIconSizesLaterId = 1]

\* IconGrid.adaptToSize: the grid it leaves, _updateIconSizes queued
adaptedGrid(g, availWidth, availHeight) ==
  LET g1 == adaptStart(g, availWidth, availHeight)
      g2 == IF shrinks(g, availWidth, availHeight)
            THEN shrink(g1, availWidth, availHeight) ELSE g1
  IN [g2 EXCEPT !.updateIconSizesLaterId = 1]

\* The loop of IconGrid.vfunc_allocate over the visible children from the i-th
\* on, in a content box whose corner is the origin: the cell each child is
\* given and its opacity. The grid does not fill its parent (fillParent is
\* false) and no clone is animating.
RECURSIVE allocateLoop(_, _, _, _, _, _, _, _, _)
allocateLoop(g, n, i, x, y, columnIndex, rowIndex, nColumns, leftEmptySpace) ==
  IF i > n THEN <<>>
  ELSE LET hidden == g.rowLimit # null /\ g.rowLimit # 0 /\ rowIndex >= g.rowLimit
           wraps == columnIndex + 1 = nColumns
           nextColumn == IF wraps THEN 0 ELSE columnIndex + 1
       IN <<[x |-> x, y |-> y, opacity |-> IF hidden THEN 0 ELSE 255,
             allocated |-> ~hidden]>>
          \o allocateLoop(g, n, i + 1,
                          IF nextColumn = 0 THEN leftEmptySpace + g.leftPadding
                          ELSE x + _getHItemSize(g) + _getSpacing(g),
                          IF nextColumn = 0 THEN y + _getVItemSize(g) + _getSpacing(g)
                          ELSE y,
                          nextColumn, IF wraps THEN rowIndex + 1 ELSE rowIndex,
                          nColumns, leftEmptySpace)

\* IconGrid.vfunc_allocate for n visible children, xAlign St.Align.MIDDLE
vfunc_allocate(g, n, availWidth) ==
  LET layout == _computeLayout(g, availWidth)
      leftEmptySpace == floorDiv(availWidth - layout.usedWidth, 2)
  IN allocateLoop(g, n, 1, leftEmptySpace + g.leftPadding, g.topPadding, 0, 0,
                  layout.nColumns, leftEmptySpace)

\* ------------------------------------------------- IconGrid.navigate_focus
Directions == {"UP", "DOWN", "LEFT", "RIGHT", "TAB_FORWARD"}

\* A variant that takes the computed column count as it is, zero included
navColumnsRaw(gridWidth) == computeLayout(gridWidth)

\* let nColumns = layout[0] || 1
navColumns(gridWidth) ==
  IF computeLayout(gridWidth) = 0 THEN 1 ELSE computeLayout(gridWidth)

\* A variant whose Up wrap does not step back from a ragged last row
NewIndexNoStepBack(idx, direction, wrap, n, nColumns) ==
  CASE direction = "LEFT" ->
         IF idx - 1 < 0 THEN (IF wrap THEN n - 1 ELSE 0) ELSE idx - 1
    [] direction = "RIGHT" ->
         IF idx + 1 >= n THEN (IF wrap THEN 0 ELSE n - 1) ELSE idx + 1
    [] direction = "UP" ->
         IF idx - nColumns < 0
         THEN (idx % nColumns) + ((n - 1) \div nColumns) * nColumns
         ELSE idx - nColumns
    [] direction = "DOWN" ->
         IF idx + nColumns >= n THEN idx % nColumns ELSE idx + nColumns

\* A variant whose Left clamps at the first cell whatever wrap says
NewIndexLeftClamped(idx, direction, wrap, n, nColumns) ==
  CASE direction = "LEFT" ->
         IF idx - 1 < 0 THEN 0 ELSE idx - 1
    [] direction = "RIGHT" ->
         IF idx + 1 >= n THEN (IF wrap THEN 0 ELSE n - 1) ELSE idx + 1
    [] direction = "UP" ->
         IF idx - nColumns < 0
         THEN LET lastRow == (n - 1) \div nColumns
                  wrapped == (idx % nColumns) + lastRow * nColumns
              IN IF wrapped >= n THEN wrapped - nColumns ELSE wrapped
         ELSE idx - nColumns
    [] direction = "DOWN" ->
         IF idx + nColumns >= n THEN idx % nColumns ELSE idx + nColumns

\* The index arithmetic of navigate_focus for a current index idx in 0..n-1
NewIndex(idx, direction, wrap, n, nColumns) ==
  CASE direction = "LEFT" ->
         IF idx - 1 < 0 THEN (IF wrap THEN n - 1 ELSE 0) ELSE idx - 1
    [] direction = "RIGHT" ->
         IF idx + 1 >= n THEN (IF wrap THEN 0 ELSE n - 1) ELSE idx + 1
    [] direction = "UP" ->
         IF idx - nColumns < 0
         THEN LET lastRow == (n - 1) \div nColumns
                  wrapped == (idx % nColumns) + lastRow * nColumns
              IN IF wrapped >= n THEN wrapped - nColumns ELSE wrapped
         ELSE idx - nColumns
    [] direction = "DOWN" ->
         IF idx + nColumns >= n THEN idx % nColumns ELSE idx + nColumns

\* A variant without the fallback to the first child for an unknown current
navTargetNoFallback(kids, current, direction, wrap, gridWidth) ==
  LET n == Len(kids)
      idx == indexOf(kids, current)
  IN IF n = 0 \/ idx < 0 THEN -1
     ELSE IF direction \notin {"LEFT", "RIGHT", "UP", "DOWN"} THEN -1
     ELSE LET newIndex == NewIndex(idx, direction, wrap, n, navColumns(gridWidth))
          IN IF newIndex \in 0..(n - 1) THEN newIndex ELSE -1

\* The index of the child that navigate_focus lets grab the key focus, -1 when
\* it focuses nothing
navTarget(kids, current, direction, wrap, gridWidth) ==
  LET n == Len(kids)
      idx == indexOf(kids, current)
  IN IF n = 0 THEN -1
     ELSE IF idx < 0 THEN 0
     ELSE IF direction \notin {"LEFT", "RIGHT", "UP", "DOWN"} THEN -1
     ELSE LET newIndex == NewIndex(idx, direction, wrap, n, navColumns(gridWidth))
          IN IF newIndex \in 0..(n - 1) THEN newIndex ELSE -1

\* A variant that reports a focus change whatever happened
navReturnAlways(target) == TRUE

\* The value navigate_focus returns: true exactly on the paths that grabbed focus
navReturn(target) == target >= 0

\* ------------------------------------------------------------------ state
VARIABLES
  allAppsCache,   \* AppBackend._allAppsCache: the inventory, in list order
  orderedItems,   \* AppView._orderedItems
  items,          \* AppView._items, a Map id -> icon
  children,       \* the IconGrid's child actors, in order
  lastFocused,    \* AppView._lastFocused (NoCell: undefined)
  keyFocus,       \* the grid cell holding the stage's key focus (NoCell: none)
  allocWidth,     \* width of the IconGrid's allocation
  actorVisible,   \* MouselessScreen.actor.visible
  lastNav,        \* the last navigate_focus / movement call and what it returned
  loaded,         \* the _redisplay pass just run: its inputs, the ids of its new list
                  \* and how many old cells it did not remove
  currentView,    \* ViewManager._currentView: "apps" or "list"
  visible,        \* the visible flag of apps, list, mainView, ifaceSettings, lightbox
  isShown,        \* MouselessScreen._isShown
  modalToken,     \* MouselessScreen._modalToken is truthy
  modalDepth,     \* Main.pushModal calls minus Main.popModal calls made by the screen
  dismissed,      \* the user has hidden the overlay since it was last shown on request
  laters,         \* the Meta.later_add(BEFORE_REDRAW) focus retries not yet run, in order
  lastModal,      \* the last showModal / hideModal call and what it did
  lastKey,        \* the last key press that reached the overlay actor, classified
  longPressTimeout, \* AppIcon._longPressTimeout of the pressed icon (0: null)
  timeouts,       \* the GLib timeout sources armed by presses and not yet removed
  lastTimeout,    \* the long-press timeout that fired last
  reloading,      \* AppBackend.reloading
  redisplayQueued, \* the deferred _redisplay work is queued
  lastReload,     \* the last AppBackend._reload call and what it did
  observers,      \* the signal handlers selectApp connected and not yet disconnected
  selects,        \* the selectApp calls made so far and what became of each
  grid,           \* the IconGrid's layout fields
  staleItems,     \* IconGrid._items holds a cell that was destroyed
  lastLayout,     \* the last adaptToSize, allocation and _updateIconSizes
  screen          \* Mouseless.screen: "live", "destroyed" (its actor and lightbox
                  \* are null) or "null" (disable dropped it)

vars == <<allAppsCache, orderedItems, items, children, lastFocused, keyFocus,
          allocWidth, actorVisible, lastNav, loaded, currentView, visible, isShown,
          modalToken, modalDepth, dismissed, laters, lastModal, lastKey,
          longPressTimeout, timeouts, lastTimeout, reloading, redisplayQueued,
          lastReload, observers, selects, grid, staleItems, lastLayout, screen>>

\* No adaptToSize, allocation or _updateIconSizes yet
NoLayout == [op |-> "none", adapted |-> FALSE, availWidth |-> 0, availHeight |-> 0,
             shrunk |-> FALSE, repeated |-> FALSE, columns |-> 0,
             placed |-> <<>>, resizedStale |-> FALSE]

\* The stage's scale factor
scale_factor == 1

\* The grid AppView._init constructs, no style read yet
layoutInit ==
  /\ grid = IconGrid(gridParams, defaultStyle, scale_factor)
  /\ staleItems = FALSE
  /\ lastLayout = NoLayout

NoNav == [called |-> FALSE, cur |-> NoCell, dir |-> "none", wrap |-> FALSE,
          ret |-> FALSE, event |-> "none", focusBefore |-> NoCell, staleMoved |-> FALSE]

NoLoad == [done |-> FALSE, kept |-> 0, newApps |-> <<>>, favorites |-> <<>>,
           runningAppIds |-> {}]

\* IconGrid._getVisibleChildren: icons are created visible and never hidden
getVisibleChildren == children

\* Widths the grid can be allocated: whole item widths, and one pixel short of one
Widths == {k * ICON_SIZE : k \in 0..MaxCols} \cup {ICON_SIZE - 1}

\* The menu tree lists the installed applications S in menu order
RECURSIVE menuOrder(_)
menuOrder(S) ==
  IF S = {} THEN <<>>
  ELSE LET a == CHOOSE x \in S : \A y \in S : x <= y
       IN <<a>> \o menuOrder(S \ {a})

\* Inputs of one reload over the applications 1..n: favorite ids (the keys of
\* the favorite map, in order, at most k of them) and the lower-cased ids of
\* the running applications
FavoriteLists(n, k) ==
  {f \in UNION {[1..m -> {AppId(a) : a \in 1..n}] : m \in 0..k} :
     \A i, j \in 1..Len(f) : i # j => f[i] # f[j]}

\* The favorite lists that hold no two ids differing only by case
CaseFreeFavoriteLists(n, k) ==
  {f \in FavoriteLists(n, k) :
     \A i, j \in 1..Len(f) : i # j => toLowerCase(f[i]) # toLowerCase(f[j])}

RunningSets(n) == SUBSET {toLowerCase(AppId(a)) : a \in 1..n}

\* The objects something still refers to
usedObjs ==
  Range(orderedItems) \cup Range(children) \cup {items[id] : id \in DOMAIN items}
    \cup {lastFocused, keyFocus}

\* actor.grab_key_focus() on a grid child: the stage moves the key focus; if it
\* was elsewhere, 'key-focus-in' -> IconGrid._keyFocusIn -> 'child-focused'
\* -> AppView._childFocused records the cell
grabKeyFocus(cell, holder) ==
  /\ keyFocus' = cell
  /\ lastFocused' = IF holder # cell THEN cell ELSE lastFocused

\* What lastNav records of a navigate_focus call: its arguments, its return
\* value, what the handler that made it returned and the holder of the key
\* focus when it was made
NavCall(current, direction, wrap, ret, event) ==
  [called |-> TRUE, cur |-> current, dir |-> direction, wrap |-> wrap, ret |-> ret,
   event |-> event, focusBefore |-> keyFocus, staleMoved |-> FALSE]

\* ------------------------------------------------------------------ screen
\* Holders of the key focus other than grid cells: the overlay actor, the list
\* container and the items of the two menu lists
ScreenActor == [app |-> 0, obj |-> 1]
ListActor == [app |-> 0, obj |-> 2]

\* The items MainListView._init and InterfaceSettingsView._init add, in order
MainItems == <<"back", "iface-settings", "display-settings", "audio-settings", "exit">>
IfaceItems == <<"back">>
ItemsOf(view) == IF view = "mainView" THEN MainItems ELSE IfaceItems
Item(view, i) == [app |-> 0, obj |-> (IF view = "mainView" THEN 10 ELSE 20) + i]
ItemHolders(view) == {Item(view, i) : i \in 1..Len(ItemsOf(view))}
itemIndex(f) == f.obj % 10

\* The actor f is w or a descendant of w
contains(w, f) ==
  CASE f = NoCell -> FALSE
    [] w = "actor" -> TRUE
    [] w \in {"apps", "appView"} -> f.app # 0
    [] w = "list" -> f = ListActor \/ f \in ItemHolders("mainView") \cup ItemHolders("ifaceSettings")
    [] w \in {"mainView", "ifaceSettings"} -> f \in ItemHolders(w)
    [] OTHER -> FALSE

\* The part of the state the screen's handlers pass along
Views == {"apps", "list"}
Widgets == {"apps", "list", "mainView", "ifaceSettings", "lightbox"}

cur ==
  [visible |-> visible, actorVisible |-> actorVisible, keyFocus |-> keyFocus,
   lastFocused |-> lastFocused, laters |-> laters, currentView |-> currentView,
   children |-> children, items |-> items, observers |-> observers,
   selects |-> selects]

\* An actor is mapped when it and all its ancestors are visible
isMapped(s, w) ==
  CASE w = "actor" -> s.actorVisible
    [] w \in {"apps", "appView"} -> s.actorVisible /\ s.visible["apps"]
    [] w = "list" -> s.actorVisible /\ s.visible["list"]
    [] w \in {"mainView", "ifaceSettings"} ->
         s.actorVisible /\ s.visible["list"] /\ s.visible[w]
    [] OTHER -> FALSE

\* grab_key_focus: a grid cell that gains the focus is recorded by
\* AppView._childFocused
setKeyFocus(s, f) ==
  [s EXCEPT !.keyFocus = f,
            !.lastFocused = IF f.app # 0 /\ s.keyFocus # f THEN f ELSE @]

\* St's navigate_focus(null, direction, false) on a container: the first (or,
\* backwards, the last) focusable mapped descendant takes the focus.
\* ListViewManager.vfunc_navigate_focus: the container, being focusable,
\* takes the focus itself when mapped, then the main list passes it to its
\* first item; the override returns nothing.
stNavigateFocus(s, w, direction) ==
  IF w = "list"
  THEN LET s1 == IF isMapped(s, "list") THEN setKeyFocus(s, ListActor) ELSE s
           s2 == IF isMapped(s1, "mainView")
                 THEN setKeyFocus(s1, Item("mainView", 1)) ELSE s1
       IN [s |-> s2, ret |-> FALSE]
  ELSE IF w \in {"mainView", "ifaceSettings"}
  THEN IF isMapped(s, w)
       THEN [s |-> setKeyFocus(s, Item(w, IF direction = "TAB_BACKWARD"
                                          THEN Len(ItemsOf(w)) ELSE 1)),
             ret |-> TRUE]
       ELSE [s |-> s, ret |-> FALSE]
  ELSE IF isMapped(s, w) /\ s.children # <<>>
       THEN [s |-> setKeyFocus(s, IF direction = "TAB_BACKWARD"
                                   THEN s.children[Len(s.children)]
                                   ELSE s.children[1]),
             ret |-> TRUE]
       ELSE [s |-> s, ret |-> FALSE]

\* MouselessScreen._grabFocus(actor, direction)
grabFocus(s, w, direction) ==
  LET r == stNavigateFocus(s, w, direction)
  IN IF r.ret THEN r.s
     ELSE [r.s EXCEPT !.laters = Append(@, [retry |-> "grabFocus", actor |-> w,
                                             direction |-> direction,
                                             stale |-> FALSE])]

\* The MenuList actor of a list view (a scroll view, created without can_focus)
MenuListActor(w) == Item(w, 0)

\* MenuList._moveFocusToItems, which addItem and the list's key-focus-in
\* handler call
moveFocusToItems(s, w) ==
  IF Len(ItemsOf(w)) = 0 THEN s
  ELSE IF s.keyFocus # MenuListActor(w) THEN s
  ELSE LET r == stNavigateFocus(s, w, "TAB_FORWARD")
       IN IF r.ret THEN r.s
          ELSE [r.s EXCEPT !.laters = Append(@, [retry |-> "moveFocusToItems",
                                                  actor |-> w,
                                                  direction |-> "TAB_FORWARD",
                                                  stale |-> FALSE])]

\* MenuList.addItem, n times: each call ends in _moveFocusToItems
RECURSIVE addListItems(_, _, _)
addListItems(s, w, n) ==
  IF n = 0 THEN s ELSE addListItems(moveFocusToItems(s, w), w, n - 1)

\* actor.hide(): an actor that is unmapped gives up the key focus
hide(s, w) ==
  LET s1 == IF w = "actor" THEN [s EXCEPT !.actorVisible = FALSE]
            ELSE [s EXCEPT !.visible[w] = FALSE]
  IN [s1 EXCEPT !.keyFocus = IF contains(w, @) THEN NoCell ELSE @]

\* A grid cell is mapped when it is a child of the mapped grid
iconMapped(s, icon) == isMapped(s, "apps") /\ InSeq(s.children, icon)

\* object.connect(signal, handler) by the selectApp call numbered call
connect(s, signal, call, id, icon) ==
  [s EXCEPT !.observers = @ \cup {[signalId |-> NextFree({o.signalId : o \in @}, 1),
                                    signal |-> signal, call |-> call, id |-> id,
                                    icon |-> icon]},
            !.selects[call].via = @ \cup {signal}]

\* A handler that stays connected
disconnectNever(s, o) == s

\* object.disconnect(signalId)
disconnect(s, o) == [s EXCEPT !.observers = @ \ {o}]

\* AppView._selectAppInternal(id)
selectAppInternal(s, call, id) ==
  IF id \in DOMAIN s.items /\ iconMapped(s, s.items[id])
  THEN [setKeyFocus(s, s.items[id]) EXCEPT !.selects[call].focused = TRUE]
  ELSE s

\* AppView.selectApp(id)
selectAppOn(s, call, id) ==
  IF id \in DOMAIN s.items
  THEN IF iconMapped(s, s.items[id]) THEN selectAppInternal(s, call, id)
       ELSE connect(s, "notify::mapped", call, id, s.items[id])
  ELSE connect(s, "view-loaded", call, id, NoCell)

\* The handler selectApp connected first, among those of a set
first(pending) == CHOOSE o \in pending : \A x \in pending : o.signalId <= x.signalId

\* 'notify::mapped' on the cells that have become mapped: each handler
\* selectApp connected to one of them disconnects itself and selects
RECURSIVE notifyMapped(_, _)
notifyMapped(s, pending) ==
  IF pending = {} THEN s
  ELSE notifyMapped(selectAppInternal(disconnect(s, first(pending)),
                                      first(pending).call, first(pending).id),
                    pending \ {first(pending)})

\* 'view-loaded': each handler selectApp had connected when the emission began
\* disconnects itself and calls selectApp again
RECURSIVE viewLoaded(_, _)
viewLoaded(s, pending) ==
  IF pending = {} THEN s
  ELSE viewLoaded(selectAppOn(disconnect(s, first(pending)),
                              first(pending).call, first(pending).id),
                  pending \ {first(pending)})

\* actor.show(): the actor is mapped, which notifies the cells that become
\* mapped; 'show' is emitted when the visible flag changes, and runs the
\* handlers the screen's constructor connected
show(s, w) ==
  IF (IF w = "actor" THEN s.actorVisible ELSE s.visible[w]) THEN s
  ELSE LET s1 == IF w = "actor" THEN [s EXCEPT !.actorVisible = TRUE]
                 ELSE [s EXCEPT !.visible[w] = TRUE]
           s2 == IF ~isMapped(s, "apps") /\ isMapped(s1, "apps")
                 THEN notifyMapped(s1, {o \in s1.observers :
                                          /\ o.signal = "notify::mapped"
                                          /\ InSeq(s1.children, o.icon)})
                 ELSE s1
       IN CASE w = "actor" -> grabFocus(s2, "apps", "TAB_FORWARD")
            [] w = "list" -> grabFocus(s2, "list", "TAB_FORWARD")
            [] w = "apps" -> grabFocus(s2, "appView", "TAB_BACKWARD")
            [] OTHER -> s2

\* ViewManager.showView without hiding the view it replaces
showViewKeepCurrent(s, name) == show([s EXCEPT !.currentView = name], name)

\* ViewManager.showView(name)
showView(s, name) ==
  LET s1 == IF s.currentView # name THEN hide(s, s.currentView) ELSE s
  IN show([s1 EXCEPT !.currentView = name], name)

\* hideModal leaving the view manager as it is
keepView(s) == s

\* MouselessScreen.homeScreen on the passed state
homeScreenOn(s) == showView(s, "apps")

\* MouselessScreen.showSettings on the passed state
showSettingsOn(s) == showView(s, "list")

\* MainListView.showInterfaceSettings
showInterfaceSettingsOn(s) ==
  stNavigateFocus(show(hide(s, "mainView"), "ifaceSettings"), "ifaceSettings",
                  "TAB_FORWARD").s

\* InterfaceSettingsView.back
ifaceBackOn(s) ==
  stNavigateFocus(show(hide(s, "ifaceSettings"), "mainView"), "mainView",
                  "TAB_FORWARD").s

\* The retries pending when the overlay is hidden
markStale(ls) == [i \in 1..Len(ls) |-> [ls[i] EXCEPT !.stale = TRUE]]

\* The before-redraw phase runs every retry that was pending when it began,
\* in the order they were added; one added meanwhile waits for the next
\* redraw. moved tells whether one that was pending at a hide moved the focus
\* A retry whose callback goes through _grabFocus again
runLaterAgain(s, l) == grabFocus(s, l.actor, l.direction)

\* The callback of one retry: the one _grabFocus added navigates once more,
\* the one _moveFocusToItems added calls _moveFocusToItems
runLater(s, l) ==
  IF l.retry = "grabFocus" THEN stNavigateFocus(s, l.actor, l.direction).s
  ELSE moveFocusToItems(s, l.actor)

RECURSIVE runLaters(_, _, _)
runLaters(s, ls, moved) ==
  IF ls = <<>> THEN [s |-> s, moved |-> moved]
  ELSE LET s1 == runLater(s, Head(ls))
       IN runLaters(s1, Tail(ls), moved \/ (Head(ls).stale /\ s1.keyFocus # s.keyFocus))

\* The state a handler leaves, written back
becomes(s) ==
  /\ visible' = s.visible
  /\ actorVisible' = s.actorVisible
  /\ keyFocus' = s.keyFocus
  /\ lastFocused' = s.lastFocused
  /\ laters' = s.laters
  /\ currentView' = s.currentView
  /\ observers' = s.observers
  /\ selects' = s.selects

NoModal == [op |-> "none", auto |-> FALSE, userHidden |-> FALSE, held |-> FALSE,
            granted |-> FALSE, token |-> FALSE, notified |-> 0, pushed |-> 0,
            popped |-> 0, wasVisible |-> FALSE, wasShown |-> FALSE]

NoKey == [symbol |-> "none", emitted |-> <<>>, ret |-> "none"]

NoTimeout == [fired |-> FALSE, id |-> 0, released |-> FALSE, hidden |-> FALSE,
              tracked |-> FALSE, menus |-> 0]

NoReload == [op |-> "none", nested |-> FALSE, loads |-> 0, emits |-> 0,
             flagAtEmit |-> FALSE, loadedAtEmit |-> FALSE, dropped |-> 0]

\* What an action that is no key press, no pointer button event and no
\* backend notification leaves of their state
keyKept == lastKey' = NoKey
inputKept == lastTimeout' = NoTimeout /\ UNCHANGED <<longPressTimeout, timeouts>>
backendKept == lastReload' = NoReload /\ UNCHANGED <<reloading, redisplayQueued>>

\* What an action that is no part of the screen leaves of the screen
screenRest ==
  /\ inputKept /\ backendKept
  /\ lastModal' = NoModal
  /\ UNCHANGED <<currentView, visible, isShown, modalToken, modalDepth, dismissed,
                 laters, observers, selects>>

screenKept == keyKept /\ screenRest

\* The key symbols told apart
Keys == {"Escape", "Up", "Down", "Left", "Right", "Return", "KP_Enter", "Tab", "space"}
ArrowKeys == {"Up", "Down", "Left", "Right"}

\* The St.DirectionType handleStageKeyPress attaches to an arrow key
movementDirection(symbol) ==
  CASE symbol = "Up" -> "UP"
    [] symbol = "Down" -> "DOWN"
    [] symbol = "Left" -> "LEFT"
    [] symbol = "Right" -> "RIGHT"
    [] OTHER -> "none"

\* The symbol of the arrow key of a direction
arrowKey(direction) ==
  CHOOSE k \in ArrowKeys : movementDirection(k) = direction

\* handleStageKeyPress emitting 'movement' for every key it does not know
handleStageKeyPressAll(symbol) ==
  [symbol |-> symbol,
   emitted |-> <<[signal |-> "movement", direction |-> movementDirection(symbol)]>>,
   ret |-> "EVENT_PROPAGATE"]

\* KeyEvents.handleStageKeyPress(screen, event): the signals it emits on the
\* screen, in order, with the direction the event carries, and what it returns
handleStageKeyPress(symbol) ==
  IF symbol = "Escape"
  THEN [symbol |-> symbol, emitted |-> <<[signal |-> "back", direction |-> "none"]>>,
        ret |-> "EVENT_STOP"]
  ELSE IF symbol \in ArrowKeys
  THEN [symbol |-> symbol,
        emitted |-> <<[signal |-> "movement", direction |-> movementDirection(symbol)]>>,
        ret |-> "EVENT_PROPAGATE"]
  ELSE IF symbol \in {"Return", "KP_Enter"}
  THEN [symbol |-> symbol, emitted |-> <<[signal |-> "select", direction |-> "none"]>>,
        ret |-> "EVENT_STOP"]
  ELSE [symbol |-> symbol, emitted |-> <<>>, ret |-> "EVENT_PROPAGATE"]

\* _grabModal pushing whether or not a token is held
grabModalAlways(held, granted) == [token |-> granted, pushed |-> IF granted THEN 1 ELSE 0]

\* MouselessScreen._grabModal: the token it leaves and the pushModal calls that
\* took a grab; Main.pushModal is granted or refused by the shell
grabModal(held, granted) ==
  [token |-> held \/ granted, pushed |-> IF ~held /\ granted THEN 1 ELSE 0]

\* MouselessScreen._removeModal: the popModal calls it makes
removeModal(held) == IF held THEN 1 ELSE 0

\* hideModal clearing _isShown whoever hides
shownCleared(shown, userHidden) == FALSE

\* MouselessScreen.hideModal: _isShown is cleared when userHidden is set
shownAfterHide(shown, userHidden) == shown /\ ~userHidden

\* The notifications showModal sends, were the failure not reported
notifyNever(token) == 0

\* showModal: Main.notify is called when _grabModal returned a falsy token
notifyCount(token) == IF token THEN 0 ELSE 1

\* ---------------------------------------------------------------- actions
\* IconGrid.navigate_focus(current, direction, wrap)
navigate_focus(current, direction, wrap) ==
  LET target == navTarget(getVisibleChildren, current, direction, wrap, allocWidth)
  IN /\ IF target >= 0
        THEN grabKeyFocus(getVisibleChildren[target + 1], keyFocus)
        ELSE UNCHANGED <<keyFocus, lastFocused>>
     /\ lastNav' = NavCall(current, direction, wrap, navReturn(target), "none")
     /\ loaded' = NoLoad
     /\ UNCHANGED <<allAppsCache, orderedItems, items, children, allocWidth,
                    screen, grid, staleItems, lastLayout, actorVisible>>
     /\ screenKept

\* AppView.movement(actor, event) with the direction the event carries
moved(direction) ==
  /\ IF lastFocused # NoCell
     THEN LET target == navTarget(getVisibleChildren, lastFocused, direction, FALSE, allocWidth)
          IN /\ IF target >= 0
                THEN grabKeyFocus(getVisibleChildren[target + 1], keyFocus)
                ELSE UNCHANGED <<keyFocus, lastFocused>>
             /\ lastNav' = NavCall(lastFocused, direction, FALSE, navReturn(target),
                                    "EVENT_STOP")
     ELSE /\ UNCHANGED <<keyFocus, lastFocused>>
          /\ lastNav' = [NoNav EXCEPT !.dir = direction, !.event = "EVENT_PROPAGATE"]
  /\ loaded' = NoLoad
  /\ UNCHANGED <<allAppsCache, orderedItems, items, children, allocWidth,
                 screen, grid, staleItems, lastLayout, actorVisible>>
  /\ screenRest

\* An arrow key on the shown grid: handleStageKeyPress emits 'movement' and
\* the screen hands it to AppView.movement
movement(direction) ==
  /\ isMapped(cur, "apps")
  /\ moved(direction)
  /\ keyKept

\* KeyEvents.handlePointerEnter on an icon of the shown overlay
handlePointerEnter(cell) ==
  /\ isMapped(cur, "apps")
  /\ grabKeyFocus(cell, keyFocus)
  /\ lastNav' = NoNav
  /\ loaded' = NoLoad
  /\ UNCHANGED <<allAppsCache, orderedItems, items, children, allocWidth,
                 screen, grid, staleItems, lastLayout, actorVisible>>
  /\ screenKept

\* The grid is given a new allocation
allocate(width) ==
  /\ allocWidth' = width
  /\ lastLayout' = [lastLayout EXCEPT !.op = "allocate",
                                      !.placed = vfunc_allocate(grid, Len(getVisibleChildren), width)]
  /\ UNCHANGED <<screen, grid, staleItems>>
  /\ lastNav' = NoNav
  /\ loaded' = NoLoad
  /\ UNCHANGED <<allAppsCache, orderedItems, items, children, lastFocused, keyFocus,
                 actorVisible>>
  /\ screenKept

\* MouselessScreen.showModal(skipAnimation): _grabModal, whose pushModal the
\* shell grants or refuses; the lightbox and the actor are shown, the actor's
\* 'show' handler runs _grabFocus(this.apps), and the overlay actor takes the
\* key focus. auto: the call is _updateRunningCount's.
showModal(granted, auto) ==
  LET g == grabModal(modalToken, granted)
      s1 == show([cur EXCEPT !.visible["lightbox"] = TRUE], "actor")
      s2 == setKeyFocus(s1, ScreenActor)
  IN /\ Len(s2.laters) <= MaxLaters
     /\ modalToken' = g.token
     /\ modalDepth' = modalDepth + g.pushed
     /\ isShown' = TRUE
     /\ becomes(s2)
     /\ dismissed' = (auto /\ dismissed)
     /\ lastModal' = [op |-> "show", auto |-> auto, userHidden |-> FALSE,
                      held |-> modalToken, granted |-> granted, token |-> g.token,
                      notified |-> notifyCount(g.token), pushed |-> g.pushed,
                      popped |-> 0, wasVisible |-> actorVisible, wasShown |-> isShown]
     /\ keyKept /\ inputKept /\ backendKept
     /\ lastNav' = NoNav
     /\ loaded' = NoLoad
     /\ UNCHANGED <<allAppsCache, orderedItems, items, children, allocWidth,
                    screen, grid, staleItems, lastLayout>>

\* MouselessScreen.hideModal on the passed state: the lightbox and the actor
\* are hidden (an unmapped actor gives up the key focus), then homeScreen().
\* The retries pending when it is called are marked.
hideModalOn(s) ==
  homeScreenOn(hide([s EXCEPT !.laters = markStale(@), !.visible["lightbox"] = FALSE],
                    "actor"))

\* What a hideModal(userHidden) call leaves, s being the state of the views
\* after it: _isShown is cleared on userHidden, _removeModal pops the grab
\* held. byUser: the call carries out a request of the user.
hideModalLeaves(s, userHidden, byUser) ==
  /\ Len(s.laters) <= MaxLaters
  /\ isShown' = shownAfterHide(isShown, userHidden)
  /\ modalToken' = FALSE
  /\ modalDepth' = modalDepth - removeModal(modalToken)
  /\ becomes(s)
  /\ dismissed' = (dismissed \/ byUser)
  /\ lastModal' = [op |-> "hide", auto |-> ~byUser, userHidden |-> userHidden,
                   held |-> modalToken, granted |-> FALSE, token |-> FALSE,
                   notified |-> 0, pushed |-> 0, popped |-> removeModal(modalToken),
                   wasVisible |-> actorVisible, wasShown |-> isShown]
  /\ backendKept
  /\ lastNav' = NoNav
  /\ loaded' = NoLoad
  /\ UNCHANGED <<allAppsCache, orderedItems, items, children, allocWidth,
                 screen, grid, staleItems, lastLayout>>

\* GLib.source_remove(id) on the armed timeout sources
sourceRemove(ts, id) == {t \in ts : t.id # id}

\* The armed sources after a hideModal: it removes none of them; each is
\* marked as having been armed when the overlay was hidden
seenHide(ts) == {[t EXCEPT !.hidden = TRUE] : t \in ts}

\* The armed sources after the pointer button went up
seenRelease(ts) == {[t EXCEPT !.released = TRUE] : t \in ts}

\* A hideModal(userHidden) call that is no part of a button handler
hidden(s, userHidden, byUser) ==
  /\ hideModalLeaves(s, userHidden, byUser)
  /\ timeouts' = seenHide(timeouts)
  /\ lastTimeout' = NoTimeout
  /\ UNCHANGED longPressTimeout

\* MouselessScreen.hideModal(userHidden) on a live screen
hideModal(userHidden, byUser) ==
  hidden(hideModalOn(cur), userHidden, byUser) /\ keyKept

\* What a handler that changes views and focus only leaves
viewed(s) ==
  /\ Len(s.laters) <= MaxLaters
  /\ becomes(s)
  /\ inputKept /\ backendKept
  /\ lastModal' = NoModal
  /\ lastNav' = NoNav
  /\ loaded' = NoLoad
  /\ UNCHANGED <<allAppsCache, orderedItems, items, children, allocWidth,
                 screen, grid, staleItems, lastLayout, isShown,
                 modalToken, modalDepth, dismissed>>

\* Mouseless.show(): the indicator's 'Open Interface' item
mouselessShow(granted) == showModal(granted, FALSE)

\* Mouseless._exitKeyHandler: the exit shortcut calls hide(), which calls
\* hideModal() with its default argument
mouselessHide == hideModal(FALSE, TRUE)

\* MouselessScreen.exit()
exit == hidden(homeScreenOn(hideModalOn(cur)), TRUE, TRUE) /\ keyKept

\* MouselessScreen.showSettings() / homeScreen(), requested on the shown
\* overlay
showSettings == actorVisible /\ viewed(showSettingsOn(cur)) /\ keyKept
homeScreen == actorVisible /\ viewed(homeScreenOn(cur)) /\ keyKept

\* MenuList.back of the list an item belongs to
backOn(s, view) == IF view = "mainView" THEN homeScreenOn(s) ELSE ifaceBackOn(s)

\* The list whose item holds the key focus
focusedList == CHOOSE v \in {"mainView", "ifaceSettings"} : keyFocus \in ItemHolders(v)
itemFocused == \E v \in {"mainView", "ifaceSettings"} : keyFocus \in ItemHolders(v)

\* Escape pressed on the shown overlay. The key goes to the holder of the
\* key focus: a list item's _onKeyPress calls its list's back() and lets the
\* event propagate; the overlay actor's handler then emits 'back', whose
\* handler is hideModal(true)
keyEscape ==
  /\ actorVisible /\ keyFocus # NoCell
  /\ hidden(hideModalOn(IF itemFocused THEN backOn(cur, focusedList) ELSE cur), TRUE, TRUE)
  /\ lastKey' = handleStageKeyPress("Escape")

\* An arrow key pressed on the shown overlay reaches the overlay actor unless
\* a list item holds the key focus and stops it (Up, Down); the 'movement'
\* signal handleStageKeyPress emits is handed to AppView.movement
keyArrow(direction) ==
  /\ actorVisible /\ keyFocus # NoCell
  /\ itemFocused => direction \in {"LEFT", "RIGHT"}
  /\ lastKey' = handleStageKeyPress(arrowKey(direction))
  /\ moved(lastKey'.emitted[1].direction)

\* Another key reaches the overlay actor unless the holder of the key focus
\* stops it: a button (list item, grid cell) takes Return, KP_Enter and
\* space, a list item takes Tab. The 'select' handler calls the activate
\* method of the holder of the key focus, and neither the overlay actor nor
\* the list container has one
keyOther(symbol) ==
  /\ actorVisible /\ keyFocus # NoCell
  /\ symbol \notin ArrowKeys \cup {"Escape"}
  /\ keyFocus \notin {ScreenActor, ListActor} =>
       symbol \notin {"Return", "KP_Enter", "space"}
  /\ itemFocused => symbol # "Tab"
  /\ lastKey' = handleStageKeyPress(symbol)
  /\ viewed(cur)

\* Tab / Down (TAB_FORWARD) or Up (TAB_BACKWARD) pressed on a list item:
\* the list moves the focus to the next item, wrapping around
itemKey(direction) ==
  /\ itemFocused
  /\ LET n == Len(ItemsOf(focusedList))
         i == itemIndex(keyFocus)
         j == IF direction = "TAB_FORWARD" THEN (i % n) + 1 ELSE ((i + n - 2) % n) + 1
     IN viewed(setKeyFocus(cur, Item(focusedList, j))) /\ keyKept

\* Return pressed on a list item: the button is clicked, 'activate' reaches
\* MenuList._itemClick, which calls the item's activate callback
activateItem ==
  /\ itemFocused
  /\ LET id == ItemsOf(focusedList)[itemIndex(keyFocus)]
     IN CASE focusedList = "ifaceSettings" -> viewed(ifaceBackOn(cur)) /\ keyKept
          [] focusedList = "mainView" /\ id = "back" ->
               viewed(homeScreenOn(cur)) /\ keyKept
          [] focusedList = "mainView" /\ id = "iface-settings" ->
               viewed(showInterfaceSettingsOn(cur)) /\ keyKept
          [] focusedList = "mainView" /\ id = "exit" -> exit
          [] OTHER -> viewed(cur) /\ keyKept

\* The icon the pointer is over, whose _longPressTimeout is followed
pointedIcon == children[1]

\* Return pressed on (or a click of) a grid cell: AppIcon.vfunc_clicked
\* removes the long-press source it tracks, AppIcon.activate launches the
\* application and calls hideModal(true). launched: the call into the shell
\* (app.activate or app.open_new_window) returned; it threw otherwise, and
\* the exception leaves activate and vfunc_clicked at once.
activateApp(launched) ==
  /\ isMapped(cur, "apps") /\ keyFocus \in Range(children)
  /\ keyKept
  /\ lastTimeout' = NoTimeout
  /\ IF launched
     THEN /\ hideModalLeaves(hideModalOn(cur), TRUE, TRUE)
          /\ IF keyFocus = pointedIcon
             THEN /\ timeouts' = seenHide(sourceRemove(timeouts, longPressTimeout))
                  /\ longPressTimeout' = 0
             ELSE /\ timeouts' = seenHide(timeouts)
                  /\ UNCHANGED longPressTimeout
     ELSE /\ lastModal' = [NoModal EXCEPT !.op = "threw", !.held = modalToken,
                                          !.wasVisible = actorVisible,
                                          !.wasShown = isShown]
          /\ IF keyFocus = pointedIcon
             THEN /\ timeouts' = sourceRemove(timeouts, longPressTimeout)
                  /\ longPressTimeout' = 0
             ELSE UNCHANGED <<timeouts, longPressTimeout>>
          /\ backendKept
          /\ lastNav' = NoNav
          /\ loaded' = NoLoad
          /\ UNCHANGED <<allAppsCache, orderedItems, items, children, lastFocused,
                         keyFocus, allocWidth, screen, grid, staleItems, lastLayout,
                         actorVisible, currentView, visible, isShown, modalToken,
                         modalDepth, dismissed, laters, observers, selects>>

\* What a pointer button handler of an icon leaves alone
buttonKept ==
  /\ keyKept /\ backendKept
  /\ lastNav' = NoNav
  /\ loaded' = NoLoad
  /\ lastModal' = NoModal
  /\ UNCHANGED <<allAppsCache, orderedItems, items, children, lastFocused, keyFocus,
                 allocWidth, screen, grid, staleItems, lastLayout, actorVisible, currentView,
                 visible, isShown, modalToken, modalDepth, dismissed, laters,
                 observers, selects>>

\* The id GLib.timeout_add gives the new source: one no armed source has
freeId == CHOOSE i \in 1..MaxTimers : i \notin {t.id : t \in timeouts}

\* The sources armed after GLib.timeout_add(PRIORITY_DEFAULT, 800, ...) in
\* the press handler: the source tracked so far stays armed
armed(ts, tracked, id) ==
  ts \cup {[id |-> id, released |-> FALSE, hidden |-> FALSE]}

\* AppIcon.vfunc_button_press_event on the icon under the pointer. The handler
\* does not chain up, so the button takes no grab and is never pressed for
\* St; a primary press comes after the button went up for every earlier one.
buttonPress(button) ==
  /\ isMapped(cur, "apps") /\ children # <<>>
  /\ IF button = "PRIMARY"
     THEN /\ Cardinality(timeouts) < MaxTimers
          /\ \A t \in timeouts : t.released
          /\ timeouts' = armed(timeouts, longPressTimeout, freeId)
          /\ longPressTimeout' = freeId
          /\ lastTimeout' = NoTimeout
     ELSE /\ lastTimeout' = [NoTimeout EXCEPT !.menus = IF button = "SECONDARY" THEN 1 ELSE 0]
          /\ UNCHANGED <<longPressTimeout, timeouts>>
  /\ buttonKept

\* The pointer button goes up. Over the icon, AppIcon.vfunc_button_release_event
\* removes the source the icon tracks; elsewhere (the pointer left the icon,
\* which holds no grab) the icon is not told
buttonRelease(onIcon) ==
  /\ \E t \in timeouts : ~t.released
  /\ onIcon => isMapped(cur, "apps") /\ children # <<>>
  /\ IF onIcon /\ longPressTimeout # 0
     THEN /\ timeouts' = seenRelease(sourceRemove(timeouts, longPressTimeout))
          /\ longPressTimeout' = 0
     ELSE /\ timeouts' = seenRelease(timeouts)
          /\ UNCHANGED longPressTimeout
  /\ lastTimeout' = NoTimeout
  /\ buttonKept

\* 800 ms after its press an armed source fires: popupMenu() is called, the
\* field is cleared and the source is removed (SOURCE_REMOVE)
longPressFires ==
  \E t \in timeouts :
    /\ timeouts' = timeouts \ {t}
    /\ longPressTimeout' = 0
    /\ lastTimeout' = [fired |-> TRUE, id |-> t.id, released |-> t.released,
                       hidden |-> t.hidden, tracked |-> longPressTimeout = t.id,
                       menus |-> 1]
    /\ buttonKept

\* A click on the lightbox behind the overlay
clickLightbox ==
  /\ visible["lightbox"]
  /\ hideModal(TRUE, TRUE)

\* MouselessScreen._updateRunningCount on 'app-state-changed': starting tells
\* whether the application of the signal is STARTING, running is the number
\* of running applications
updateRunningCount(starting, running, granted) ==
  IF starting THEN viewed(cur) /\ keyKept
  ELSE IF running # 0 THEN hideModal(FALSE, FALSE)
  ELSE IF isShown THEN showModal(granted, TRUE)
  ELSE viewed(cur) /\ keyKept

\* 'installed-changed': AppBackend._reload reads the menu tree again
reload(S) ==
  /\ S # Range(allAppsCache)
  /\ allAppsCache' = menuOrder(S)
  /\ lastNav' = NoNav
  /\ loaded' = NoLoad
  /\ UNCHANGED <<orderedItems, items, children, lastFocused, keyFocus, allocWidth,
                 screen, grid, staleItems, lastLayout,
                 actorVisible>>
  /\ screenKept

\* A guard that lets every notification through
inFlightNever(b) == FALSE

\* The guard of AppBackend._reload: a reload is in progress
inFlight(b) == b.reloading

\* AppBackend._load: the menu tree is read, S being what is installed
backendLoad(b, S) == [b EXCEPT !.cache = menuOrder(S), !.loads = @ + 1]

\* AppBackend._reload on a notification, b being the backend and what the
\* pass has done so far; nested: another notification arrives while the menu
\* tree is being loaded and enters _reload before the pass is over
RECURSIVE backendReload(_, _, _)
backendReload(b, S, nested) ==
  IF inFlight(b) THEN [b EXCEPT !.dropped = @ + 1]
  ELSE LET b1 == backendLoad([b EXCEPT !.reloading = TRUE], S)
           b2 == IF nested THEN backendReload(b1, S, FALSE) ELSE b1
           b3 == [b2 EXCEPT !.reloading = FALSE]
       IN [b3 EXCEPT !.emits = @ + 1, !.flagAtEmit = b3.reloading,
                     !.loadedAtEmit = (b3.loads > 0)]

\* A notification the backend is connected to; queues: AppView queues a
\* redisplay on it as well
notified(op, S, nested, queues) ==
  /\ \E b \in {backendReload([reloading |-> reloading, cache |-> allAppsCache,
                               loads |-> 0, emits |-> 0, flagAtEmit |-> FALSE,
                               loadedAtEmit |-> FALSE, dropped |-> 0], S, nested)} :
       /\ allAppsCache' = b.cache
       /\ reloading' = b.reloading
       /\ lastReload' = [op |-> op, nested |-> nested, loads |-> b.loads,
                         emits |-> b.emits, flagAtEmit |-> b.flagAtEmit,
                         loadedAtEmit |-> b.loadedAtEmit, dropped |-> b.dropped]
  /\ redisplayQueued' = (redisplayQueued \/ queues)
  /\ keyKept /\ inputKept
  /\ lastNav' = NoNav
  /\ loaded' = NoLoad
  /\ lastModal' = NoModal
  /\ UNCHANGED <<orderedItems, items, children, lastFocused, keyFocus, allocWidth,
                 screen, grid, staleItems, lastLayout,
                 actorVisible, currentView, visible, isShown, modalToken, modalDepth,
                 dismissed, laters, observers, selects>>

\* AppBackend._reload on a notification when the load_sync of _load throws:
\* the flag is set and the caches are emptied before _load, and the exception
\* leaves _reload before the flag is cleared and 'reload' emitted
backendReloadThrows(b) ==
  IF inFlight(b) THEN [b EXCEPT !.dropped = @ + 1]
  ELSE [b EXCEPT !.reloading = TRUE, !.cache = <<>>, !.loads = @ + 1]

\* A notification on which the menu tree cannot be loaded
reloadThrows(op) ==
  /\ \E b \in {backendReloadThrows([reloading |-> reloading, cache |-> allAppsCache,
                                     loads |-> 0, emits |-> 0, flagAtEmit |-> FALSE,
                                     loadedAtEmit |-> FALSE, dropped |-> 0])} :
       /\ allAppsCache' = b.cache
       /\ reloading' = b.reloading
       /\ lastReload' = [op |-> op, nested |-> FALSE, loads |-> b.loads,
                         emits |-> b.emits, flagAtEmit |-> b.flagAtEmit,
                         loadedAtEmit |-> b.loadedAtEmit, dropped |-> b.dropped]
  /\ redisplayQueued' = (redisplayQueued \/ op = "installed-changed")
  /\ keyKept /\ inputKept
  /\ lastNav' = NoNav
  /\ loaded' = NoLoad
  /\ lastModal' = NoModal
  /\ UNCHANGED <<orderedItems, items, children, lastFocused, keyFocus, allocWidth,
                 screen, grid, staleItems, lastLayout, actorVisible, currentView,
                 visible, isShown, modalToken, modalDepth, dismissed, laters,
                 observers, selects>>

\* AppSystem 'installed-changed': the backend reloads, and AppView's handler
\* reloads the favorites and queues a redisplay
installedChanged(S, nested) == notified("installed-changed", S, nested, TRUE)

\* The menu tree's 'changed': the backend reloads and emits 'reload', which
\* has no listener
menuTreeChanged(S, nested) == notified("changed", S, nested, FALSE)

\* The parental controls' 'app-filter-changed': as for the menu tree
appFilterChanged(S, nested) == notified("app-filter-changed", S, nested, FALSE)

\* AppFavorites 'changed': AppView._queueRedisplay
favoritesChanged ==
  /\ redisplayQueued' = TRUE
  /\ lastReload' = NoReload
  /\ UNCHANGED reloading
  /\ keyKept /\ inputKept
  /\ lastNav' = NoNav
  /\ loaded' = NoLoad
  /\ lastModal' = NoModal
  /\ UNCHANGED <<allAppsCache, orderedItems, items, children, lastFocused, keyFocus,
                 allocWidth, screen, grid, staleItems, lastLayout, actorVisible, currentView,
                 visible, isShown, modalToken, modalDepth, dismissed, laters,
                 observers, selects>>

\* AppView.selectApp(id), called by a user of the view
selectApp(id) ==
  /\ Len(selects) < MaxSelects
  /\ \E s \in {selectAppOn([cur EXCEPT !.selects = Append(@, [id |-> id, focused |-> FALSE,
                                                               via |-> {}])],
                            Len(selects) + 1, id)} :
       becomes(s)
  /\ keyKept /\ inputKept /\ backendKept
  /\ lastNav' = NoNav
  /\ loaded' = NoLoad
  /\ lastModal' = NoModal
  /\ UNCHANGED <<allAppsCache, orderedItems, items, children, allocWidth,
                 screen, grid, staleItems, lastLayout, isShown,
                 modalToken, modalDepth, dismissed>>

\* AppView._redisplay, run as deferred work, with the favorites and running
\* applications of that moment; a destroyed cell takes the handlers connected
\* to it along. It ends by emitting 'view-loaded', whose first handler
\* _grabFocus(appView) focuses the first cell of a mapped grid; the handlers
\* of selectApp follow
redisplay(favorites, runningAppIds) ==
  \E backendApps \in {getAllApps(allAppsCache)} :
  \E newApps \in {loadApps(newIcons(backendApps, usedObjs), favorites, runningAppIds)} :
  \E removed \in {removedApps(orderedItems, newApps)} :
  \E added \in {addedApps(newApps, orderedItems)} :
  \E kids \in {addItems(destroyed(children, removed), added, newApps)} :
  \E s1 \in {grabFocus([cur EXCEPT !.children = kids,
                                   !.items = setItems(deleteItems(items, removed), added),
                                   !.observers = {o \in @ : ~InSeq(removed, o.icon)},
                                   !.keyFocus = IF InSeq(removed, @) THEN NoCell ELSE @],
                      "appView", "TAB_FORWARD")} :
  \E s \in {viewLoaded(s1, {o \in s1.observers : o.signal = "view-loaded"})} :
     /\ Len(s.laters) <= MaxLaters
     /\ allAppsCache' = backendApps
     /\ orderedItems' = spliceAdded(spliceRemoved(orderedItems, removed), added, newApps)
     /\ items' = s.items
     /\ children' = kids
     /\ becomes(s)
     /\ loaded' = [done |-> TRUE, kept |-> Len(orderedItems) - Len(removed),
                   newApps |-> Ids(newApps),
                   favorites |-> favorites, runningAppIds |-> runningAppIds]
     /\ lastNav' = NoNav
     /\ lastModal' = NoModal
     /\ keyKept /\ inputKept
     /\ redisplayQueued' = FALSE
     /\ lastReload' = NoReload
     /\ staleItems' = (staleItems \/ removed # <<>>)
     /\ UNCHANGED <<allocWidth, screen, grid, lastLayout, isShown, modalToken, modalDepth,
                    dismissed, reloading>>

\* The stage redraws: the before-redraw phase runs the pending focus retries
beforeRedraw ==
  LET r == runLaters([cur EXCEPT !.laters = <<>>], laters, FALSE)
  IN /\ laters # <<>>
     /\ becomes(r.s)
     /\ lastNav' = [NoNav EXCEPT !.event = "retry", !.focusBefore = keyFocus,
                                 !.staleMoved = r.moved]
     /\ loaded' = NoLoad
     /\ lastModal' = NoModal
     /\ keyKept /\ inputKept /\ backendKept
     /\ UNCHANGED <<allAppsCache, orderedItems, items, children, allocWidth,
                    screen, grid, staleItems, lastLayout, isShown,
                    modalToken, modalDepth, dismissed>>

\* Mouseless.hide(false): the overlay actor alone is hidden
mouselessHideActor ==
  /\ screen = "live"
  /\ viewed(hide(cur, "actor"))
  /\ keyKept

\* The views after MouselessScreen.destroy(): the actor and the lightbox are
\* destroyed, and with them whatever held the key focus; the retries pending
\* are left without their actors
destroyOn(s) ==
  hide([s EXCEPT !.laters = markStale(@), !.visible["lightbox"] = FALSE], "actor")

\* What destroying the screen leaves alone
destroyKept ==
  /\ lastNav' = NoNav
  /\ loaded' = NoLoad
  /\ keyKept /\ backendKept
  /\ lastTimeout' = NoTimeout
  /\ UNCHANGED <<allAppsCache, orderedItems, items, children, allocWidth, grid,
                 staleItems, lastLayout, isShown, dismissed, longPressTimeout>>

\* MouselessScreen.destroy() on a live screen: actor and lightbox are destroyed
\* and set to null, _modalToken is kept; the shell pops the grab of a
\* destroyed actor itself (the 'destroy' handler of Main.pushModal)
destroy ==
  /\ screen = "live"
  /\ screen' = "destroyed"
  /\ becomes(destroyOn(cur))
  /\ modalDepth' = modalDepth - removeModal(modalToken)
  /\ lastModal' = [NoModal EXCEPT !.op = "destroy", !.held = modalToken,
                                  !.token = modalToken,
                                  !.wasVisible = actorVisible, !.wasShown = isShown]
  /\ UNCHANGED <<modalToken, timeouts>>
  /\ destroyKept

\* Mouseless.disable(): screen.hideModal(), screen.destroy(), screen = null
disable ==
  /\ screen = "live"
  /\ screen' = "null"
  /\ becomes(destroyOn(hideModalOn(cur)))
  /\ modalToken' = FALSE
  /\ modalDepth' = modalDepth - removeModal(modalToken)
  /\ timeouts' = seenHide(timeouts)
  /\ lastModal' = [NoModal EXCEPT !.op = "disable", !.held = modalToken,
                                  !.popped = removeModal(modalToken),
                                  !.wasVisible = actorVisible, !.wasShown = isShown]
  /\ destroyKept

\* An event that reaches the extension after its screen was destroyed; op is
\* what became of it: "noop" (it returned having done nothing) or "deref" (it
\* used the null screen, or the null actor of the destroyed screen, and threw)
afterEvent(op) ==
  /\ screen # "live"
  /\ lastModal' = [NoModal EXCEPT !.op = op, !.held = modalToken, !.token = modalToken,
                                  !.wasVisible = actorVisible, !.wasShown = isShown]
  /\ lastNav' = NoNav
  /\ loaded' = NoLoad
  /\ keyKept /\ inputKept /\ backendKept
  /\ UNCHANGED <<allAppsCache, orderedItems, items, children, lastFocused, keyFocus,
                 allocWidth, screen, grid, staleItems, lastLayout, actorVisible,
                 currentView, visible, isShown, modalToken, modalDepth, dismissed,
                 laters, observers, selects>>

\* The exit shortcut, which disable leaves bound: Mouseless.hide() calls
\* this.screen.hideModal(), which returns at once on a screen without actor
afterExit == afterEvent(IF screen = "null" THEN "deref" ELSE "noop")

\* Mouseless.hide(false): this.screen.actor.hide()
afterHideActor == afterEvent("deref")

\* Mouseless.show() on a screen that was destroyed and not dropped:
\* showModal() passes the null actor to the shell
afterShow == screen = "destroyed" /\ afterEvent("deref")

\* 'app-state-changed', which destroy leaves connected: _updateRunningCount
\* calls hideModal(false), which returns at once, or showModal(true)
afterAppStateChanged(starting, running) ==
  afterEvent(IF ~starting /\ running = 0 /\ isShown THEN "deref" ELSE "noop")

\* What of a grid adaptToSize settles: the spacing, the fixed item sizes, the
\* four paddings, and the columns that fit the width
geometry(g, availWidth) ==
  <<_getSpacing(g), g.fixedHItemSize, g.fixedVItemSize, g.topPadding, g.rightPadding,
    g.bottomPadding, g.leftPadding, columnsForWidth(g, availWidth)>>

\* What a layout step leaves alone
layoutKept ==
  /\ lastNav' = NoNav
  /\ loaded' = NoLoad
  /\ UNCHANGED <<allAppsCache, orderedItems, items, children, lastFocused, keyFocus,
                 allocWidth, actorVisible, staleItems, screen>>
  /\ screenKept

\* IconGrid.adaptToSize(availWidth, availHeight), as AppView.adaptToSize calls
\* it when the view stack is allocated a new size
adaptToSize(availWidth, availHeight) ==
  \E adapted \in {adaptedGrid(grid, availWidth, availHeight)} :
    /\ grid' = adapted
    /\ lastLayout' = [lastLayout EXCEPT
         !.op = "adaptToSize", !.adapted = TRUE,
         !.availWidth = availWidth, !.availHeight = availHeight,
         !.shrunk = shrinks(grid, availWidth, availHeight),
         !.repeated = /\ lastLayout.adapted
                      /\ lastLayout.availWidth = availWidth
                      /\ lastLayout.availHeight = availHeight,
         !.columns = columnsForWidth(adapted, availWidth)]
    /\ layoutKept

\* IconGrid._updateIconSizes, the queued call run before a redraw: every cell
\* of IconGrid._items is given the new icon size
_updateIconSizes ==
  /\ grid.updateIconSizesLaterId # 0
  /\ grid' = [grid EXCEPT !.updateIconSizesLaterId = 0]
  /\ lastLayout' = [lastLayout EXCEPT !.op = "_updateIconSizes",
                                      !.resizedStale = staleItems]
  /\ layoutKept

\* ------------------------------------------------------------ specifications
\* After construction: an empty view, a hidden overlay, nothing allocated; the
\* backend will read whatever is installed among the applications 1..n.
\* The lists after ListViewManager._init: every addItem of the two list views
\* has run, with the key focus nowhere in the overlay
constructed ==
  LET s0 == [visible |-> [w \in Widgets |-> w \in {"apps", "mainView"}],
             actorVisible |-> FALSE, keyFocus |-> NoCell, lastFocused |-> NoCell,
             laters |-> <<>>, currentView |-> "apps", children |-> <<>>,
             items |-> <<>>, observers |-> {}, selects |-> <<>>]
  IN addListItems(addListItems(s0, "mainView", Len(MainItems)),
                  "ifaceSettings", Len(IfaceItems))

\* MouselessScreen's constructor: the views are added hidden and the apps view
\* is shown before any handler is connected; no grab is held
screenInit ==
  /\ currentView = "apps"
  /\ visible = [w \in Widgets |-> w \in {"apps", "mainView"}]
  /\ isShown = FALSE
  /\ modalToken = FALSE
  /\ modalDepth = 0
  /\ dismissed = FALSE
  /\ laters = constructed.laters
  /\ lastModal = NoModal
  /\ lastKey = NoKey
  /\ longPressTimeout = 0
  /\ timeouts = {}
  /\ lastTimeout = NoTimeout
  /\ reloading = FALSE
  /\ redisplayQueued = FALSE
  /\ lastReload = NoReload
  /\ observers = {}
  /\ selects = <<>>
  /\ screen = "live"

InitOver(n) ==
  /\ allAppsCache \in {menuOrder(S) : S \in SUBSET (1..n)}
  /\ orderedItems = <<>>
  /\ items = <<>>
  /\ children = <<>>
  /\ lastFocused = NoCell
  /\ keyFocus = NoCell
  /\ allocWidth = 0
  /\ layoutInit
  /\ actorVisible = FALSE
  /\ lastNav = NoNav
  /\ loaded = NoLoad
  /\ screenInit

\* Reconciliation: the inventory changes one application at a time, passes run
\* with any favorites and running applications, the overlay is shown and
\* hidden, the pointer and the arrow keys move the focus; a focus retry runs
\* (the stage redraws) before the next of these.
Init == InitOver(MaxApps)

Favorites == CaseFreeFavoriteLists(MaxApps, MaxFav)
Running == RunningSets(MaxApps)

Next ==
  \/ /\ laters = <<>>
     /\ \/ \E a \in 1..MaxApps : reload(IF a \in Range(allAppsCache)
                                        THEN Range(allAppsCache) \ {a}
                                        ELSE Range(allAppsCache) \cup {a})
        \/ \E f \in Favorites, r \in Running : redisplay(f, r)
        \/ \E c \in Range(children) : handlePointerEnter(c)
        \/ \E d \in {"UP", "DOWN", "LEFT", "RIGHT"} : movement(d)
        \/ showModal(TRUE, FALSE)
        \/ hideModal(TRUE, TRUE)
  \/ beforeRedraw

Spec == Init /\ [][Next]_vars

\* A single load: the first pass after construction, over every inventory,
\* favorite list and set of running applications.
InitLoad == InitOver(MaxLoadApps)

LoadFavorites == FavoriteLists(MaxLoadApps, MaxLoadFav)
LoadRunning == RunningSets(MaxLoadApps)

NextLoad ==
  /\ ~loaded.done
  /\ \E f \in LoadFavorites, r \in LoadRunning : redisplay(f, r)

SpecLoad == InitLoad /\ [][NextLoad]_vars

\* Navigation: a shown overlay whose grid holds the n installed applications
\* (the state a first pass without favorites leaves), under any allocation.
InitNav ==
  \E n \in 0..MaxCells :
    /\ allAppsCache = getAllApps(menuOrder(1..n))
    /\ orderedItems = loadApps(newIcons(allAppsCache, {}), <<>>, {})
    /\ items = setItems(<<>>, orderedItems)
    /\ children = orderedItems
    /\ lastFocused = NoCell
    /\ keyFocus = NoCell
    /\ allocWidth = 0
    /\ layoutInit
    /\ actorVisible = TRUE
    /\ lastNav = NoNav
    /\ loaded = NoLoad
    /\ screenInit

\* A cell that is no child of the grid (one a pass destroyed)
StaleCell == [app |-> 1, obj |-> 2]

NextNav ==
  \/ \E c \in Range(children) \cup {NoCell, StaleCell}, d \in Directions, w \in BOOLEAN :
       navigate_focus(c, d, w)
  \/ \E d \in {"UP", "DOWN", "LEFT", "RIGHT"} : movement(d)
  \/ \E c \in Range(children) : handlePointerEnter(c)
  \/ \E w \in Widths : allocate(w)

SpecNav == InitNav /\ [][NextNav]_vars

\* The screen: the overlay after construction, MaxScreenCells applications
\* installed and the grid not yet filled by its first pass; the overlay is
\* shown and hidden by the user and by the running-application count, its
\* views are switched, passes run.
InitScreen ==
  /\ allAppsCache = menuOrder(1..MaxScreenCells)
  /\ orderedItems = <<>>
  /\ items = <<>>
  /\ children = <<>>
  /\ lastFocused = NoCell
  /\ keyFocus = NoCell
  /\ allocWidth = 0
  /\ layoutInit
  /\ actorVisible = FALSE
  /\ lastNav = NoNav
  /\ loaded = NoLoad
  /\ screenInit

NextScreen ==
  \/ \E granted \in BOOLEAN : mouselessShow(granted)
  \/ mouselessHide
  \/ keyEscape
  \/ clickLightbox
  \/ \E launched \in BOOLEAN : activateApp(launched)
  \/ activateItem
  \/ \E d \in {"TAB_FORWARD", "TAB_BACKWARD"} : itemKey(d)
  \/ \E d \in {"UP", "DOWN", "LEFT", "RIGHT"} : keyArrow(d)
  \/ \E k \in Keys : keyOther(k)
  \/ showSettings
  \/ homeScreen
  \/ redisplay(<<>>, {})
  \/ \E starting \in BOOLEAN, running \in 0..1, granted \in BOOLEAN :
       updateRunningCount(starting, running, granted)
  \/ beforeRedraw

SpecScreen == InitScreen /\ [][NextScreen]_vars

\* The pointer on an icon: the overlay is shown and hidden, a pass fills the
\* grid, the primary or the secondary button is pressed on the first icon and
\* released on it or elsewhere, Return activates the focused icon, armed
\* long-press sources fire.
NextPress ==
  \/ /\ laters = <<>>
     /\ \/ showModal(TRUE, FALSE)
        \/ hideModal(TRUE, TRUE)
        \/ redisplay(<<>>, {})
        \/ \E launched \in BOOLEAN : activateApp(launched)
        \/ \E b \in {"PRIMARY", "SECONDARY"} : buttonPress(b)
        \/ \E onIcon \in BOOLEAN : buttonRelease(onIcon)
        \/ longPressFires
  \/ beforeRedraw

SpecPress == InitScreen /\ [][NextPress]_vars

\* The deferred work of Main.queueDeferredWork runs once it has been queued
deferredWork == redisplayQueued /\ redisplay(<<>>, {})

\* The backend: notifications of the application system, of the menu tree, of
\* the parental controls and of the favorites arrive, with any set of
\* installed applications; queued passes run.
NextBackend ==
  \/ /\ laters = <<>>
     /\ \/ \E S \in SUBSET (1..MaxApps), nested \in BOOLEAN : installedChanged(S, nested)
        \/ \E S \in SUBSET (1..MaxApps), nested \in BOOLEAN : menuTreeChanged(S, nested)
        \/ \E S \in SUBSET (1..MaxApps), nested \in BOOLEAN : appFilterChanged(S, nested)
        \/ favoritesChanged
        \/ deferredWork
        \/ showModal(TRUE, FALSE)
        \/ hideModal(TRUE, TRUE)
  \/ beforeRedraw

SpecBackend == Init /\ [][NextBackend]_vars

\* Selection: applications are selected by id while the inventory changes one
\* application at a time, passes run and the overlay is shown and hidden.
NextSelect ==
  \/ /\ laters = <<>>
     /\ \/ \E a \in 1..MaxApps : selectApp(AppId(a))
        \/ \E a \in 1..MaxApps : reload(IF a \in Range(allAppsCache)
                                        THEN Range(allAppsCache) \ {a}
                                        ELSE Range(allAppsCache) \cup {a})
        \/ redisplay(<<>>, {})
        \/ showModal(TRUE, FALSE)
        \/ hideModal(TRUE, TRUE)
  \/ beforeRedraw

SpecSelect == Init /\ [][NextSelect]_vars

\* ------------------------------------------------- navigation properties
\* What the state holds of the navigate_focus call recorded in lastNav
count == Len(children)
columns == navColumns(allocWidth)
currentIndex == indexOf(children, lastNav.cur)
focusIndex == indexOf(children, keyFocus)
NoMovement == ~lastNav.ret /\ keyFocus = lastNav.focusBefore

\* C1: whatever the column count, the item count, the current cell, the
\* direction and wrap, a navigate_focus call either reports no movement (and
\* leaves the key focus where it was) or has focused a cell of the grid, whose
\* index is in [0, count).
C1_FocusInRange ==
  lastNav.called =>
    \/ NoMovement
    \/ lastNav.ret /\ keyFocus \in Range(children) /\ focusIndex \in 0..(count - 1)

\* A wrapping Up from the first row has focused a cell of the grid
C1_Witness ==
  /\ lastNav.called /\ lastNav.ret /\ lastNav.dir = "UP"
  /\ count = MaxCells /\ columns = 2 /\ currentIndex = 1
  /\ focusIndex \in 0..(count - 1)

\* C2: Up and Down from a cell of the grid move by exactly one row when that
\* index is in range; otherwise they wrap to the cell of the same column in
\* the last row (Up: the last cell of that column, one row back when the last
\* row is ragged) or in the first row (Down).  The result is always a cell.
C2_UpDownRows ==
  (lastNav.called /\ lastNav.dir \in {"UP", "DOWN"} /\ currentIndex >= 0) =>
    /\ lastNav.ret
    /\ focusIndex \in 0..(count - 1)
    /\ IF lastNav.dir = "UP"
       THEN IF currentIndex - columns >= 0
            THEN focusIndex = currentIndex - columns
            ELSE /\ focusIndex % columns = currentIndex % columns
                 /\ focusIndex + columns >= count
       ELSE IF currentIndex + columns < count
            THEN focusIndex = currentIndex + columns
            ELSE /\ focusIndex % columns = currentIndex % columns
                 /\ focusIndex < columns

\* 5 items in 3 columns: Up from index 4 has focused index 1
C2_Witness ==
  /\ lastNav.called /\ lastNav.dir = "UP"
  /\ count = 5 /\ columns = 3 /\ currentIndex = 4
  /\ focusIndex = 1

\* C3: with wrap on, a Right from a cell i of the grid followed by a Left from
\* the cell that Right focused brings the focus back to i; Right of the last
\* cell is the first cell and Left of the first cell is the last.
C3_RightLeftRoundTrip ==
  [][(/\ lastNav.called /\ lastNav.dir = "RIGHT" /\ lastNav.wrap
      /\ lastNav.cur \in Range(children)
      /\ lastNav'.called /\ lastNav'.dir = "LEFT" /\ lastNav'.wrap
      /\ lastNav'.cur = keyFocus)
     => /\ lastNav.ret /\ lastNav'.ret
        /\ keyFocus' = lastNav.cur
        /\ currentIndex = count - 1 => focusIndex = 0
        /\ focusIndex = 0 => keyFocus' = children[count]]_vars

\* A wrapping Left from the first cell, which held the focus, has focused the
\* last cell
C3_Witness ==
  /\ lastNav.called /\ lastNav.dir = "LEFT" /\ lastNav.wrap /\ lastNav.ret
  /\ count >= 2 /\ currentIndex = 0 /\ lastNav.focusBefore = lastNav.cur
  /\ focusIndex = count - 1

\* C4: with wrap off, a Left from the first cell and a Right from the last
\* cell report no movement, and the movement handler lets the event propagate.
C4_EdgeReportsNoMovement ==
  (/\ lastNav.called /\ ~lastNav.wrap
   /\ \/ lastNav.dir = "LEFT" /\ currentIndex = 0
      \/ lastNav.dir = "RIGHT" /\ currentIndex >= 0 /\ currentIndex = count - 1)
  => ~lastNav.ret /\ lastNav.event # "EVENT_STOP"

\* C5: a call whose current cell is no visible child of a non-empty grid has
\* focused the first cell, whatever the direction.
C5_UnknownCurrentFocusesFirst ==
  (lastNav.called /\ currentIndex < 0 /\ count > 0) =>
    lastNav.ret /\ keyFocus = children[1]

\* A Down from a destroyed cell has focused the first cell, the focus having
\* been elsewhere
C5_Witness ==
  /\ lastNav.called /\ lastNav.cur = StaleCell /\ lastNav.dir = "DOWN"
  /\ count >= 2 /\ lastNav.focusBefore = children[2]
  /\ keyFocus = children[1] /\ lastNav.ret

\* C6 as stated: when the computed column count is <= 0 or the grid has no
\* cells, a call returns none for every direction and focuses no cell.
C6_NoColumnsReturnsNone ==
  (lastNav.called /\ (computeLayout(allocWidth) <= 0 \/ count = 0)) => NoMovement

\* C6 amended: a call on a grid without cells reports no movement; a call on
\* a non-empty grid whose computed column count is <= 0 navigates as in a
\* single column: Up and Down step to the previous and next cell and wrap
\* between the first and the last.
C6_NoCellsOrSingleColumn ==
  lastNav.called =>
    /\ count = 0 => NoMovement
    /\ (count > 0 /\ computeLayout(allocWidth) <= 0 /\ currentIndex >= 0) =>
         /\ lastNav.dir = "DOWN" => lastNav.ret /\ focusIndex = (currentIndex + 1) % count
         /\ lastNav.dir = "UP" =>
              lastNav.ret /\ focusIndex = (currentIndex + count - 1) % count

\* No cell fits the width: a Down from the second cell has focused the third
C6_Witness ==
  /\ lastNav.called /\ lastNav.dir = "DOWN" /\ lastNav.ret
  /\ computeLayout(allocWidth) = 0 /\ allocWidth = ICON_SIZE - 1
  /\ count >= 3 /\ currentIndex = 1 /\ focusIndex = 2

\* --------------------------------------------- reconciliation properties
\* C7: after any _redisplay pass the ids of _orderedItems, and of the grid's
\* children, are in the order of the pass's newly loaded list.
C7_CollectionInNewOrder ==
  loaded.done => Ids(orderedItems) = loaded.newApps /\ Ids(children) = loaded.newApps

\* C8: a pass keeps every cell whose id is in both the old collection and the
\* new list: the same cell object stays in _orderedItems and among the grid's
\* children, and no cell of the new collection carries an old id on another
\* object; when the new id list equals the old one the collection, the
\* children and the id map are left as they were.
C8_KeptCellsKeepIdentity ==
  [][loaded'.done =>
       /\ \A c \in Range(orderedItems) :
            InSeq(loaded'.newApps, getId(c)) =>
              /\ c \in Range(orderedItems')
              /\ c \in Range(children) => c \in Range(children')
       /\ \A c \in Range(orderedItems') :
            InSeq(Ids(orderedItems), getId(c)) => c \in Range(orderedItems)
       /\ Ids(orderedItems) = loaded'.newApps =>
            orderedItems' = orderedItems /\ children' = children /\ items' = items]_vars

\* A pass has kept an old cell and added a new one
C8_Witness ==
  /\ loaded.done /\ loaded.kept >= 1
  /\ Len(orderedItems) > loaded.kept
  /\ Range(orderedItems) = Range(children)

\* C9: after any pass the view's last-focused reference is no destroyed cell:
\* it is undefined or a cell of the collection that is a child of the grid.
C9_LastFocusedIsLive ==
  loaded.done =>
    \/ lastFocused = NoCell
    \/ lastFocused \in Range(orderedItems) /\ lastFocused \in Range(children)

\* ----------------------------------------------------- load properties
\* The inventory application that carries an id, and the group _loadApps
\* puts an id in, for the favorites and running applications of the pass
AppOf(id) == CHOOSE a \in 1..(MaxLoadApps + MaxApps) : AppId(a) = id
IsFavorite(id) == toLowerCase(id) \in favoriteAppIds(loaded.favorites)
IsRunning(id) == toLowerCase(id) \in loaded.runningAppIds
Group(id) == IF IsFavorite(id) THEN 1 ELSE IF IsRunning(id) THEN 2 ELSE 3
FavoriteRank(id) ==
  CHOOSE i \in 1..Len(loaded.favorites) :
    /\ toLowerCase(loaded.favorites[i]) = toLowerCase(id)
    /\ \A j \in 1..(i - 1) : toLowerCase(loaded.favorites[j]) # toLowerCase(id)
Alphabetical(id1, id2) == AppName(AppOf(id1)).letter <= AppName(AppOf(id2)).letter

\* The list of a load is grouped: favorites in favorite-list order, then the
\* running applications that are no favorites, then the others, both in
\* alphabetical order of their names
LoadIsGrouped ==
  loaded.done =>
    \A i, j \in 1..Len(loaded.newApps) :
      i < j =>
        LET x == loaded.newApps[i]
            y == loaded.newApps[j]
        IN /\ Group(x) <= Group(y)
           /\ Group(x) = 1 /\ Group(y) = 1 => FavoriteRank(x) <= FavoriteRank(y)
           /\ Group(x) = Group(y) /\ Group(x) > 1 => Alphabetical(x, y)

\* The list of a load holds every inventory application exactly once
LoadHoldsEachOnce ==
  loaded.done =>
    /\ \A a \in Range(allAppsCache) :
         Cardinality({i \in 1..Len(loaded.newApps) : loaded.newApps[i] = AppId(a)}) = 1
    /\ \A i \in 1..Len(loaded.newApps) :
         \E a \in Range(allAppsCache) : loaded.newApps[i] = AppId(a)

\* C10: the list _loadApps produces is favorites in favorite-list order, then
\* running non-favorite applications in alphabetical order, then all others in
\* alphabetical order, and every inventory application is in it exactly once.
C10_LoadOrderAndCoverage == LoadIsGrouped /\ LoadHoldsEachOnce

\* ------------------------------------------------------ collection properties
\* C11: after any pass, no two cells of the grid's collection (_orderedItems)
\* carry the same id.
C11_NoDuplicateIds ==
  \A i, j \in 1..Len(orderedItems) :
    i # j => getId(orderedItems[i]) # getId(orderedItems[j])
\* ----------------------------------------------------------- view properties
\* C12: in every reachable state exactly one of the app grid and the list
\* container is visible, and inside the list container exactly one of the
\* main settings list and the interface-settings sub-list is visible.
C12_ExactlyOneView ==
  /\ visible["apps"] # visible["list"]
  /\ visible["mainView"] # visible["ifaceSettings"]
  /\ visible[currentView]

\* The sub-list is the shown view
C12_Witness ==
  actorVisible /\ currentView = "list" /\ visible["ifaceSettings"]
    /\ keyFocus \in ItemHolders("ifaceSettings")

\* C13: the view manager's current view is the app grid at the start and
\* after every hideModal, user-initiated or automatic, from any view.
C13_HideResetsToGrid ==
  /\ currentView = "apps"
  /\ [](lastModal.op = "hide" => currentView = "apps" /\ visible["apps"])

\* The overlay was hidden from the list view: homeScreen showed the grid on
\* the hidden overlay, which leaves a (appView, TAB_BACKWARD) retry
C13_Witness ==
  /\ lastModal.op = "hide" /\ lastModal.wasVisible /\ lastModal.auto
  /\ \E i \in 1..Len(laters) :
       laters[i] = [retry |-> "grabFocus", actor |-> "appView",
                    direction |-> "TAB_BACKWARD", stale |-> FALSE]

\* The main settings list is the view shown by the view manager
MainListShown == visible["list"] /\ visible["mainView"] /\ ~visible["ifaceSettings"]

\* C14: from every reachable state whose view is the grid, showSettings()
\* makes the main settings list (not the sub-list) the visible view.
C14_ShowSettingsShowsMainList ==
  [][(currentView = "apps" /\ showSettings) => (currentView' = "list" /\ MainListShown')]_vars

\* The key focus is on the Back item of a list
backItemFocused ==
  itemFocused /\ ItemsOf(focusedList)[itemIndex(keyFocus)] = "back"

\* C15: a back action in a list view (Escape on one of its items, or its Back
\* item activated) leaves the overlay shown and returns one level: from the
\* sub-list the main list becomes visible, from the main list the grid
\* becomes current.
C15_BackReturnsOneLevel ==
  [][(itemFocused /\ (keyEscape \/ (backItemFocused /\ activateItem))) =>
       /\ actorVisible'
       /\ focusedList = "ifaceSettings" => currentView' = "list" /\ MainListShown'
       /\ focusedList = "mainView" => currentView' = "apps"]_vars

\* ---------------------------------------------------------- modal properties
\* C16: pushes minus pops is always 0 or 1, and is 1 exactly while a token is
\* held; showModal while a token is held pushes nothing; hideModal pops the
\* held grab exactly once and leaves none held.
C16_AtMostOneGrab ==
  /\ modalDepth \in {0, 1}
  /\ modalToken <=> modalDepth = 1
  /\ lastModal.op = "show" /\ lastModal.held => lastModal.pushed = 0
  /\ lastModal.op = "hide" =>
       /\ lastModal.popped = (IF lastModal.held THEN 1 ELSE 0)
       /\ ~modalToken /\ modalDepth = 0

\* showModal was called while the grab was held
C16_Witness ==
  lastModal.op = "show" /\ lastModal.held /\ lastModal.granted /\ modalDepth = 1

\* C17: a showModal whose grab was refused notifies once and still shows the
\* overlay (shown flag set, overlay and lightbox visible, key focus on the
\* overlay actor); a hideModal with no grab held pops nothing and hides the
\* overlay.
C17_DegradedShow ==
  /\ lastModal.op = "show" /\ ~lastModal.token =>
       /\ lastModal.notified = 1 /\ lastModal.pushed = 0 /\ ~modalToken
       /\ isShown /\ actorVisible /\ visible["lightbox"] /\ keyFocus = ScreenActor
  /\ lastModal.op = "show" /\ lastModal.token => lastModal.notified = 0
  /\ lastModal.op = "hide" /\ ~lastModal.held =>
       /\ lastModal.popped = 0 /\ modalDepth = 0
       /\ ~actorVisible /\ ~visible["lightbox"]

\* An overlay shown without a grab has been hidden
C17_Witness ==
  lastModal.op = "hide" /\ ~lastModal.held /\ lastModal.wasVisible /\ lastModal.wasShown

\* C18: once the user has hidden the overlay (Escape, background click, Exit
\* item, application activated, exit shortcut), it stays hidden until it is
\* shown on request, whatever the running-application count does.
C18_UserHiddenStaysHidden == dismissed => ~actorVisible

\* C19: an automatic hide (the running count became nonzero) hides the
\* overlay and leaves _isShown as it was; an automatic show (the count is back
\* to zero and no hide has cleared _isShown) of the hidden overlay leaves it
\* shown with the grid current, and with the grab held when the shell grants
\* it.
C19_AutoHideAndReshow ==
  /\ lastModal.op = "hide" /\ lastModal.auto =>
       ~actorVisible /\ ~lastModal.userHidden /\ isShown = lastModal.wasShown
  /\ lastModal.op = "show" /\ lastModal.auto /\ ~lastModal.wasVisible =>
       /\ lastModal.wasShown /\ isShown
       /\ actorVisible /\ visible["lightbox"]
       /\ currentView = "apps" /\ visible["apps"] /\ ~visible["list"]
       /\ lastModal.granted => modalToken /\ modalDepth = 1

\* The overlay, hidden by the running count, has been shown again by it
C19_Witness ==
  /\ lastModal.op = "show" /\ lastModal.auto /\ ~lastModal.wasVisible
  /\ lastModal.granted /\ ~lastModal.held /\ modalToken /\ ~dismissed

\* C20: no retry that was pending when the overlay was hidden moves the key
\* focus when the stage next redraws.
C20_NoRetryAfterHide == lastNav.event = "retry" => ~lastNav.staleMoved

\* C27: every key press that reaches the overlay actor is classified into at
\* most one signal: Escape into 'back' alone, an arrow key into 'movement'
\* alone, carrying the direction of the arrow, Return and KP_Enter into
\* 'select' alone; any other key emits nothing and is propagated.
C27_OneEventPerKey ==
  lastKey.symbol # "none" =>
    /\ Len(lastKey.emitted) <= 1
    /\ lastKey.symbol = "Escape" =>
         lastKey.emitted = <<[signal |-> "back", direction |-> "none"]>>
    /\ lastKey.symbol = "Up" =>
         lastKey.emitted = <<[signal |-> "movement", direction |-> "UP"]>>
    /\ lastKey.symbol = "Down" =>
         lastKey.emitted = <<[signal |-> "movement", direction |-> "DOWN"]>>
    /\ lastKey.symbol = "Left" =>
         lastKey.emitted = <<[signal |-> "movement", direction |-> "LEFT"]>>
    /\ lastKey.symbol = "Right" =>
         lastKey.emitted = <<[signal |-> "movement", direction |-> "RIGHT"]>>
    /\ lastKey.symbol \in {"Return", "KP_Enter"} =>
         lastKey.emitted = <<[signal |-> "select", direction |-> "none"]>>
    /\ lastKey.symbol \in {"Tab", "space"} =>
         lastKey.emitted = <<>> /\ lastKey.ret = "EVENT_PROPAGATE"

\* A key that is none of the classified ones has reached the overlay actor
C27_Witness ==
  lastKey.symbol = "Tab" /\ lastKey.ret = "EVENT_PROPAGATE" /\ actorVisible

\* C30: navigation in a settings list does not wrap: Down or Tab on the last
\* item never moves the key focus to the first item and invokes the back
\* action of the list instead (the main list hands over to the grid, the
\* sub-list to the main list); Up or Shift-Tab on the first item never moves
\* the key focus to the last item.
C30_ListDoesNotWrap ==
  [][/\ (/\ itemKey("TAB_FORWARD")
         /\ itemIndex(keyFocus) = Len(ItemsOf(focusedList))) =>
          /\ Len(ItemsOf(focusedList)) > 1 => keyFocus' # Item(focusedList, 1)
          /\ focusedList = "mainView" => currentView' = "apps"
          /\ focusedList = "ifaceSettings" => MainListShown'
     /\ (/\ itemKey("TAB_BACKWARD")
         /\ itemIndex(keyFocus) = 1
         /\ Len(ItemsOf(focusedList)) > 1) =>
          keyFocus' # Item(focusedList, Len(ItemsOf(focusedList)))]_vars

\* C28: while the settings list or its sub-list is the visible view, no arrow
\* key that reaches the overlay actor changes the last-focused cell of the
\* hidden grid or moves the key focus to a grid cell.
C28_MovementOnlyInVisibleView ==
  [][(currentView = "list" /\ \E d \in {"UP", "DOWN", "LEFT", "RIGHT"} : keyArrow(d)) =>
       /\ lastFocused' = lastFocused
       /\ keyFocus'.app = 0]_vars

\* C29: a movement event that resolves no target (no last-focused cell, or
\* navigate_focus reporting no movement, as it does on an empty grid) changes
\* no focus, calls _childFocused on no cell (so no click is played) and is
\* propagated by the handler, not consumed.
C29_UnresolvedMovementPropagates ==
  [][((\E d \in {"UP", "DOWN", "LEFT", "RIGHT"} : movement(d))
      /\ (lastFocused = NoCell \/ ~lastNav'.ret)) =>
       /\ keyFocus' = keyFocus
       /\ lastFocused' = lastFocused
       /\ lastNav'.event = "EVENT_PROPAGATE"]_vars

C21_HideCancelsLongPress == lastTimeout.fired => ~lastTimeout.hidden

\* C22: at most one long-press source is armed for the icon at any time, the
\* one the icon tracks, and no source fires after the button of its press went
\* up; a firing opens the menu once.
C22_OneTimerNeverAfterRelease ==
  /\ Cardinality(timeouts) <= 1
  /\ \A t \in timeouts : t.id = longPressTimeout
  /\ lastTimeout.fired => ~lastTimeout.released /\ lastTimeout.menus = 1

\* C25: a notification that enters _reload while a pass is in progress is
\* dropped: it loads nothing and emits nothing; every pass that runs loads
\* once and emits 'reload' exactly once, after its load and with the flag
\* cleared.
C25_ReloadGuarded ==
  lastReload.op # "none" =>
    /\ lastReload.loads = 1 /\ lastReload.emits = 1
    /\ lastReload.loadedAtEmit /\ ~lastReload.flagAtEmit
    /\ lastReload.dropped = (IF lastReload.nested THEN 1 ELSE 0)
    /\ ~reloading

\* A notification arrived during a pass and was dropped
C25_Witness ==
  /\ lastReload.op = "changed" /\ lastReload.nested /\ lastReload.dropped = 1
  /\ lastReload.emits = 1

\* C26: every notification on which the backend completed a reload leaves a
\* redisplay pass queued, so that the grid is brought to the new inventory.
C26_ReloadQueuesRedisplay ==
  lastReload.op # "none" /\ lastReload.emits > 0 => redisplayQueued

\* C24: at any time every selectApp call has at most one handler connected,
\* and none once its cell has been focused; a handler on 'notify::mapped' is
\* connected to a cell of the grid that is not mapped, a cell selected while
\* mapped having been focused at once.
C24_SelectChainBounded ==
  \A c \in 1..Len(selects) :
    /\ Cardinality({o \in observers : o.call = c}) <= 1
    /\ selects[c].focused => {o \in observers : o.call = c} = {}
    /\ \A o \in observers :
         o.call = c /\ o.signal = "notify::mapped" =>
           InSeq(children, o.icon) /\ ~isMapped(cur, "apps")

\* A call for an application that was not installed has been deferred to the
\* next pass, then to the mapping of its cell, and has focused it
C24_Witness ==
  \E c \in 1..Len(selects) :
    /\ selects[c].focused /\ selects[c].via = {"view-loaded", "notify::mapped"}
    /\ {o \in observers : o.call = c} = {}

\* Layout: a freshly constructed grid under any of the parameter sets and
\* styles; the view stack is allocated one size after another.
LayoutParams ==
  {defaultParams, [defaultParams EXCEPT !.columnLimit = 2],
   gridParams, [gridParams EXCEPT !.padWithSpacing = TRUE]}
Styles ==
  [spacing : {0, MaxStyleSpacing}, hItemSize : {SmallItem, ICON_SIZE + MIN_ICON_SIZE},
   vItemSize : {SmallItem, ICON_SIZE + MIN_ICON_SIZE}]
AvailWidths == {0} \cup ((MaxAvailWidth - WidthSpan)..MaxAvailWidth)
AvailHeights == {0} \cup ((MaxAvailHeight - HeightSpan)..MaxAvailHeight)

InitLayout ==
  /\ allAppsCache = <<>>
  /\ orderedItems = <<>>
  /\ items = <<>>
  /\ children = <<>>
  /\ lastFocused = NoCell
  /\ keyFocus = NoCell
  /\ allocWidth = 0
  /\ actorVisible = FALSE
  /\ lastNav = NoNav
  /\ loaded = NoLoad
  /\ screenInit
  /\ grid \in {IconGrid(p, st, scale_factor) : p \in LayoutParams, st \in Styles}
  /\ staleItems = FALSE
  /\ lastLayout = NoLayout

NextLayout == \E w \in AvailWidths, h \in AvailHeights : adaptToSize(w, h)

SpecLayout == InitLayout /\ [][NextLayout]_vars

\* C31: IconGrid.adaptToSize is idempotent: called again with the width and
\* height of the call before it, it leaves the spacing, the fixed item width
\* and height, the four paddings and the column count as that call left them,
\* with or without padWithSpacing and whether or not the shrink pass ran.
C31_AdaptIdempotent ==
  [][(lastLayout'.op = "adaptToSize" /\ lastLayout'.repeated)
       => geometry(grid', lastLayout'.availWidth) = geometry(grid, lastLayout.availWidth)]_vars

C31_Witness ==
  /\ lastLayout.op = "adaptToSize"
  /\ lastLayout.repeated
  /\ lastLayout.shrunk
  /\ grid.padWithSpacing
  /\ grid.fixedHItemSize < grid.hItemSize

\* C32: the layout is monotonic in the width: of two adaptToSize calls with
\* the same height, style, minimum rows and columns and column limit, the one
\* with the larger width leaves at least as many columns for its width.
C32_ColumnsMonotonic ==
  [][(/\ lastLayout.adapted
      /\ lastLayout'.op = "adaptToSize"
      /\ lastLayout'.availHeight = lastLayout.availHeight
      /\ lastLayout.availWidth <= lastLayout'.availWidth)
       => lastLayout.columns <= lastLayout'.columns]_vars

\* C33: whenever _computeLayout returns one column or more, the columns, the
\* spacing between them and the left and right padding fit the width it was
\* given, and the columns never exceed the column limit; it returns one
\* column or more whenever one item and the paddings fit the width.
C33_ColumnsFit ==
  \A forWidth \in AvailWidths :
    LET layout == _computeLayout(grid, forWidth)
        n == layout.nColumns
        pads == grid.leftPadding + grid.rightPadding
    IN /\ n >= 1 => n * _getHItemSize(grid) + (n - 1) * _getSpacing(grid) + pads
                      <= forWidth
       /\ n >= 1 => layout.usedWidth
                      = n * _getHItemSize(grid) + (n - 1) * _getSpacing(grid) + pads
       /\ grid.colLimit # null => n <= grid.colLimit
       /\ _getHItemSize(grid) + pads <= forWidth => n >= 1

\* After an adaptToSize: a spaced grid whose column limit cut the columns short
C33_Witness ==
  /\ lastLayout.op = "adaptToSize"
  /\ _getSpacing(grid) > 0
  /\ grid.colLimit # null
  /\ lastLayout.columns = grid.colLimit
  /\ usedWidthForNColumns(grid, grid.colLimit + 1) <= lastLayout.availWidth

\* C34: when the width the grid is allocated is 0 or less, the layout has no
\* column and the placement does nothing: no cell is allocated a box, none is
\* made opaque.
C34_NoPlacementWithoutWidth ==
  (lastLayout.op = "allocate" /\ allocWidth <= 0) =>
    /\ columnsForWidth(grid, allocWidth) = 0
    /\ \A i \in DOMAIN lastLayout.placed :
         ~lastLayout.placed[i].allocated /\ lastLayout.placed[i].opacity = 0

\* C35: when the call that launches the application throws while a cell is
\* activated, the overlay is dismissed all the same: the modal grab is
\* released and the overlay actor hidden.
C35_ThrowStillDismisses ==
  lastModal.op = "threw" => (~modalToken /\ ~actorVisible)

\* The public operations of the overlay: it is shown and hidden by the user,
\* by the running-application count and through Mouseless.hide, the screen is
\* destroyed or the extension disabled, and events arrive afterwards.
NextPublic ==
  \/ /\ screen = "live"
     /\ \/ \E granted \in BOOLEAN : mouselessShow(granted)
        \/ mouselessHide
        \/ exit
        \/ clickLightbox
        \/ \E starting \in BOOLEAN, running \in 0..1, granted \in BOOLEAN :
             updateRunningCount(starting, running, granted)
        \/ beforeRedraw
  \/ mouselessHideActor
  \/ destroy
  \/ disable
  \/ afterExit
  \/ afterHideActor
  \/ afterShow
  \/ \E starting \in BOOLEAN, running \in 0..1 : afterAppStateChanged(starting, running)

SpecPublic == InitScreen /\ [][NextPublic]_vars

\* C36: whenever the screen holds a modal grab the overlay actor is visible:
\* no public operation (hideModal, Mouseless.hide with closeModal true or
\* false, disable, the hiding on a running application) leaves the overlay
\* hidden with the grab held.
C36_GrabOnlyWhileVisible ==
  (screen = "live" /\ modalToken) => actorVisible

\* C37: once the screen is destroyed (MouselessScreen.destroy or
\* Mouseless.disable), every event that follows does nothing: none uses the
\* destroyed actor or the null screen, and no modal grab is held or taken.
C37_NoEffectAfterDestroy ==
  screen # "live" => (lastModal.op # "deref" /\ modalDepth = 0)

\* C38: after any sequence of _redisplay passes AppView._orderedItems, the
\* keys of AppView._items and the children of the IconGrid hold the same
\* cells, and _orderedItems is in the order of the grid's children.
C38_CollectionsAgree ==
  /\ orderedItems = children
  /\ DOMAIN items = {getId(c) : c \in Range(orderedItems)}
  /\ \A c \in Range(orderedItems) : items[getId(c)] = c

\* Resizing: the inventory changes, passes refill the grid, the view stack is
\* allocated the largest or no width, and the queued icon resize runs.
NextResize ==
  \/ /\ laters = <<>>
     /\ \/ \E a \in 1..MaxApps : reload(IF a \in Range(allAppsCache)
                                        THEN Range(allAppsCache) \ {a}
                                        ELSE Range(allAppsCache) \cup {a})
        \/ \E f \in Favorites, r \in Running : redisplay(f, r)
        \/ \E w \in {0, MaxAvailWidth} : adaptToSize(w, MaxAvailHeight)
        \/ _updateIconSizes
  \/ beforeRedraw

SpecResize == Init /\ [][NextResize]_vars

\* C39: IconGrid._items holds only live cells that are children of the grid:
\* after a pass has destroyed a cell, the deferred _updateIconSizes never
\* resizes a destroyed cell.
C39_ResizeOnlyLiveCells ==
  lastLayout.op = "_updateIconSizes" => ~lastLayout.resizedStale

\* Failing loads: the notifications and passes of the backend, and
\* notifications on which the menu tree cannot be loaded.
NextFailure ==
  \/ NextBackend
  \/ /\ laters = <<>>
     /\ \E op \in {"installed-changed", "changed", "app-filter-changed"} : reloadThrows(op)

SpecFailure == Init /\ [][NextFailure]_vars

\* C40: the in-flight flag of the backend never stays set once a reload pass
\* has ended: when the load of a pass throws, the flag is cleared, so that the
\* next notification runs a reload and is not dropped.
C40_FlagClearedAfterPass ==
  /\ ~reloading
  /\ (lastReload.op # "none" /\ ~lastReload.nested) => lastReload.dropped = 0
====
